---- MODULE Spec2Model ----
(***************************************************************************)
(* Model of the chord card's modifier engine (ChordCard.tsx), its          *)
(* long-press gesture handling and the modifier conflict rules             *)
(* (chordModifierRules / chords configuration).                            *)
(*                                                                         *)
(* A JavaScript Set is modelled as a duplicate-free sequence in insertion  *)
(* order, because Set.forEach visits the elements in that order.  A        *)
(* pending window.setTimeout callback is modelled as a record holding the  *)
(* values its closure captured when the timer was armed.                   *)
(***************************************************************************)
EXTENDS Integers, Sequences, FiniteSets, TLC

VARIABLES
    lockedModifiers,     \* useState<Set<string>>: insertion-ordered, no duplicates
    tempModifier,        \* useState<string | null>
    currentIntervals,    \* useState<number[]>
    baseIntervals,       \* the `intervals` prop of the card
    timers,              \* pending long-press timeouts, oldest first
    pressTimerRef,       \* pressTimerRef.current: a timer id, or 0 for null
    isLongPressRef,      \* isLongPressRef.current
    currentModifierRef,  \* currentModifierRef.current: a label or "null"
    emitted,             \* handleTap / handleLongPress calls made by the last step
    played,              \* playChord(intervals) calls made by the last step
    nextTimerId,         \* the handle the next window.setTimeout call returns
    mounted,             \* the card is mounted (its unmount cleanup has not run)
    sounded,             \* audio.playChord calls of the last step that did not throw
    audioThrows,         \* the playback capability throws when it is called
    candidate,           \* argument modifierToAdd of the getConflictingModifiers call
    active,              \* argument activeModifiers of the getConflictingModifiers call
    conflictsOut,        \* the lists getConflictingModifiers has returned
    calcModifiers,       \* argument modifiers of the calculateIntervals call
    calcBase,            \* the baseIntervals that call's closure holds
    calcOut,             \* the lists calculateIntervals has returned
    chordProgression,    \* state.chordProgression: entries [id, duration]
    isPlaying,           \* state.playbackState.isPlaying
    currentBeat,         \* state.playbackState.currentBeat
    loop,                \* state.playbackState.loop
    tempo,               \* state.playbackState.tempo
    intervalRef,         \* intervalRef.current: an interval handle, or 0 for null
    currentIndexRef,     \* currentIndexRef.current
    tickStreams,         \* the setInterval streams not yet cleared, with their closures
    timelineMounted,     \* a ChordTimeline instance is mounted
    handler,             \* the handler or callback of the timeline that ran last
    calls,               \* the playChord / setPlayback... calls it made, in order
    audioRef,            \* audioRef.current of useAudioEngine
    loading,             \* the loading state of useAudioEngine
    loadFailed,          \* the catch branch of initAudio has logged a failed load
    engineOut,           \* what the last call into the audio engine did
    legacyActive,        \* activeModifiers of the earlier card
    legacyCurrent,       \* currentIntervals of the earlier card: the array it names
    replaceWithMem,      \* the contents of the catalog's replaceWith arrays
    intervalsProp,       \* the contents of the array passed as the intervals prop
    legacyPlayed,        \* the intervals the earlier card's last handler played
    legacyCalls,         \* calls of applyModifier / handleSelectChange so far
    groupMode,           \* the mode a chord group lookup is made for
    groupNumeral,        \* the numeral it looks up
    diatonicOut,         \* the harmonic functions found, once looked up
    borrowedOut          \* the borrowed groups found, once looked up

vars == <<lockedModifiers, tempModifier, currentIntervals, baseIntervals, timers,
          pressTimerRef, isLongPressRef, currentModifierRef, emitted, played,
          nextTimerId, mounted, sounded, audioThrows, candidate, active, conflictsOut,
          calcModifiers, calcBase, calcOut,
          chordProgression, isPlaying, currentBeat, loop, tempo, intervalRef,
          currentIndexRef, tickStreams, timelineMounted, handler, calls,
          audioRef, loading, loadFailed, engineOut,
          legacyActive, legacyCurrent, replaceWithMem, intervalsProp, legacyPlayed,
          legacyCalls, groupMode, groupNumeral, diatonicOut, borrowedOut>>

cardVars == <<lockedModifiers, tempModifier, currentIntervals, baseIntervals, timers,
              pressTimerRef, isLongPressRef, currentModifierRef, emitted, played,
              nextTimerId, mounted, sounded>>

resolverVars == <<candidate, active, conflictsOut>>

intervalVars == <<calcModifiers, calcBase, calcOut>>

timelineVars == <<chordProgression, isPlaying, currentBeat, loop, tempo, intervalRef,
                  currentIndexRef, tickStreams, timelineMounted, handler, calls>>

audioVars == <<audioThrows>>

engineVars == <<audioRef, loading, loadFailed, engineOut>>

legacyVars == <<legacyActive, legacyCurrent, replaceWithMem, intervalsProp, legacyPlayed,
                legacyCalls>>

groupVars == <<groupMode, groupNumeral, diatonicOut, borrowedOut>>

\* what the card's handlers never touch
nonCardVars == <<resolverVars, intervalVars, timelineVars, audioVars, engineVars,
                 legacyVars, groupVars>>

\* what the timeline's handlers never touch
nonTimelineVars == <<cardVars, resolverVars, intervalVars, audioVars, engineVars,
                     legacyVars, groupVars>>

\* what the audio engine never touches
nonEngineVars == <<cardVars, resolverVars, intervalVars, timelineVars, audioVars,
                   legacyVars, groupVars>>

\* what the earlier card's handlers never touch
nonLegacyVars == <<cardVars, resolverVars, intervalVars, timelineVars, audioVars,
                   engineVars, groupVars>>

\* what a chord group lookup never touches
nonGroupVars == <<cardVars, resolverVars, intervalVars, timelineVars, audioVars,
                  engineVars, legacyVars>>

----------------------------------------------------------------------------
(* Bounds of the model *)

\* pointer-downs (long-press timers armed) in one run of the card
MaxPresses == 2
\* size of the active sets handed to getConflictingModifiers and calculateIntervals
MaxActive == 2
\* number of tones in a base interval set handed to calculateIntervals
MaxBaseLen == 4
\* number of entries in the chord progression
MaxEntries == 2
\* number of frequencies in a chord handed to the audio engine
MaxNotes == 3
\* number of applyModifier / handleSelectChange calls on the earlier card
MaxToggles == 3

\* the fallback of the tempo input, and the milliseconds of one minute
DefaultTempo == 120
\* the gain of a single note and of each note of a chord, in tenths
NoteGain == 8
ChordGain == 6
MsPerMinute == 60000

----------------------------------------------------------------------------
(* JavaScript helpers *)

Null == "null"

Range(s) == {s[i] : i \in DOMAIN s}

\* Array.prototype.includes / Set.prototype.has
includes(s, x) == x \in Range(s)

\* Set.prototype.add: an element already present keeps its place
SetAdd(s, x) == IF includes(s, x) THEN s ELSE Append(s, x)

\* Set.prototype.delete / Array.prototype.filter(i => i !== x)
SetDelete(s, x) == SelectSeq(s, LAMBDA e : e # x)

RECURSIVE DeleteAll(_, _)
DeleteAll(s, xs) ==
    IF xs = <<>> THEN s ELSE DeleteAll(SetDelete(s, Head(xs)), Tail(xs))

RECURSIVE InsertSorted(_, _)
InsertSorted(x, s) ==
    IF s = <<>> THEN <<x>>
    ELSE IF x < Head(s) THEN <<x>> \o s
    ELSE <<Head(s)>> \o InsertSorted(x, Tail(s))

\* Array.prototype.sort((a, b) => a - b)
RECURSIVE sort(_)
sort(s) == IF s = <<>> THEN <<>> ELSE InsertSorted(Head(s), sort(Tail(s)))

----------------------------------------------------------------------------
(* Modifier catalog and conflict rules *)

\* An absent optional field of a ChordModifier is the empty sequence.
Mod(label, intervalToAdd, intervalsToAdd, intervalToRemove, replaceWith) ==
    [label |-> label, intervalToAdd |-> intervalToAdd,
     intervalsToAdd |-> intervalsToAdd, intervalToRemove |-> intervalToRemove,
     replaceWith |-> replaceWith]

CHORD_MODIFIERS ==
    << Mod("7",    <<10>>, <<>>, <<>>, <<>>),
       Mod("maj7", <<11>>, <<>>, <<>>, <<>>),
       Mod("6",    <<9>>,  <<>>, <<>>, <<>>),
       Mod("sus2", <<>>, <<>>, <<>>, <<0, 2, 7>>),
       Mod("sus4", <<>>, <<>>, <<>>, <<0, 5, 7>>),
       Mod("dim",  <<>>, <<>>, <<>>, <<0, 3, 6>>),
       Mod("9",    <<>>, <<10, 14>>, <<>>, <<>>),
       Mod("maj9", <<>>, <<11, 14>>, <<>>, <<>>),
       Mod("11",   <<>>, <<10, 14, 17>>, <<>>, <<>>),
       Mod("13",   <<>>, <<10, 14, 21>>, <<>>, <<>>),
       Mod("add9", <<14>>, <<>>, <<>>, <<>>),
       Mod("aug",  <<>>, <<>>, <<>>, <<0, 4, 8>>) >>

CatalogLabels == {CHORD_MODIFIERS[i].label : i \in DOMAIN CHORD_MODIFIERS}

\* the labels of the catalog that carry replaceWith
ReplaceLabels ==
    {CHORD_MODIFIERS[i].label :
        i \in {j \in DOMAIN CHORD_MODIFIERS : CHORD_MODIFIERS[j].replaceWith # <<>>}}

ModifierCategory == {"seventh", "extension", "addition", "suspension", "quality"}

\* MODIFIER_CATEGORIES[label]; "undefined" for a label the record lacks
MODIFIER_CATEGORIES(label) ==
    CASE label \in {"7", "maj7", "6"}          -> "seventh"
      [] label \in {"9", "maj9", "11", "13"}   -> "extension"
      [] label = "add9"                        -> "addition"
      [] label \in {"sus2", "sus4"}            -> "suspension"
      [] label \in {"dim", "aug"}              -> "quality"
      [] OTHER                                 -> "undefined"

\* the table with a suspension no longer evicting the other suspension
CATEGORY_CONFLICTS_NoSelfSuspension ==
    [c \in ModifierCategory |->
        CASE c = "seventh"    -> <<"seventh", "extension">>
          [] c = "extension"  -> <<"extension", "seventh", "addition", "quality">>
          [] c = "addition"   -> <<"addition", "extension">>
          [] c = "suspension" -> <<"quality">>
          [] c = "quality"    -> <<"quality", "suspension", "extension", "addition">>]

\* the table with suspension and quality no longer evicting each other
CATEGORY_CONFLICTS_QualityKeepsSuspension ==
    [c \in ModifierCategory |->
        CASE c = "seventh"    -> <<"seventh", "extension">>
          [] c = "extension"  -> <<"extension", "seventh", "addition", "quality">>
          [] c = "addition"   -> <<"addition", "extension">>
          [] c = "suspension" -> <<"suspension">>
          [] c = "quality"    -> <<"quality", "extension", "addition">>]

CATEGORY_CONFLICTS ==
    [c \in ModifierCategory |->
        CASE c = "seventh"    -> <<"seventh", "extension">>
          [] c = "extension"  -> <<"extension", "seventh", "addition", "quality">>
          [] c = "addition"   -> <<"addition", "extension">>
          [] c = "suspension" -> <<"suspension", "quality">>
          [] c = "quality"    -> <<"quality", "suspension", "extension", "addition">>]

RECURSIVE CollectConflicts(_, _, _)
CollectConflicts(activeModifiers, conflictingCategories, conflicts) ==
    IF activeModifiers = <<>> THEN conflicts
    ELSE LET activeModifier == Head(activeModifiers)
             activeCategory == MODIFIER_CATEGORIES(activeModifier)
         IN  CollectConflicts(
                 Tail(activeModifiers), conflictingCategories,
                 IF activeCategory # "undefined"
                    /\ includes(conflictingCategories, activeCategory)
                 THEN Append(conflicts, activeModifier)
                 ELSE conflicts)

\* the lookup turned around: an active label conflicts when ITS category lists
\* the candidate's
RECURSIVE CollectConflicts_Reversed(_, _, _)
CollectConflicts_Reversed(activeModifiers, category, conflicts) ==
    IF activeModifiers = <<>> THEN conflicts
    ELSE LET activeModifier == Head(activeModifiers)
             activeCategory == MODIFIER_CATEGORIES(activeModifier)
         IN  CollectConflicts_Reversed(
                 Tail(activeModifiers), category,
                 IF activeCategory # "undefined"
                    /\ includes(CATEGORY_CONFLICTS[activeCategory], category)
                 THEN Append(conflicts, activeModifier)
                 ELSE conflicts)

getConflictingModifiers_Reversed(modifierToAdd, activeModifiers) ==
    LET category == MODIFIER_CATEGORIES(modifierToAdd)
    IN  IF category = "undefined" THEN <<>>
        ELSE CollectConflicts_Reversed(activeModifiers, category, <<>>)

getConflictingModifiers(modifierToAdd, activeModifiers) ==
    LET category == MODIFIER_CATEGORIES(modifierToAdd)
    IN  IF category = "undefined" THEN <<>>
        ELSE CollectConflicts(activeModifiers, CATEGORY_CONFLICTS[category], <<>>)

----------------------------------------------------------------------------
(* calculateIntervals *)

\* CHORD_MODIFIERS.find((m) => m.label === modLabel), <<>> when not found
FindModifier(modLabel) ==
    SelectSeq(CHORD_MODIFIERS, LAMBDA m : m.label = modLabel)

\* first forEach: the replacement modifiers set the base, the others are collected
RECURSIVE SplitModifiers(_, _, _)
SplitModifiers(modifiers, intervals, additiveMods) ==
    IF modifiers = <<>>
    THEN [intervals |-> intervals, additiveMods |-> additiveMods]
    ELSE LET found == FindModifier(Head(modifiers))
         IN  IF found = <<>>
             THEN SplitModifiers(Tail(modifiers), intervals, additiveMods)
             ELSE IF found[1].replaceWith # <<>>
             THEN SplitModifiers(Tail(modifiers), found[1].replaceWith, additiveMods)
             ELSE SplitModifiers(Tail(modifiers), intervals,
                                 Append(additiveMods, found[1]))

\* the push without the includes test
PushMissing_Always(intervals, toAdd) == intervals \o toAdd

RECURSIVE PushMissing(_, _)
PushMissing(intervals, toAdd) ==
    IF toAdd = <<>> THEN intervals
    ELSE PushMissing(IF includes(intervals, Head(toAdd)) THEN intervals
                     ELSE Append(intervals, Head(toAdd)),
                     Tail(toAdd))

ApplyAdditive(intervals, mod) ==
    IF mod.intervalsToAdd # <<>> THEN PushMissing(intervals, mod.intervalsToAdd)
    ELSE IF mod.intervalToAdd # <<>> THEN PushMissing(intervals, mod.intervalToAdd)
    ELSE IF mod.intervalToRemove # <<>>
         THEN SetDelete(intervals, mod.intervalToRemove[1])
    ELSE intervals

RECURSIVE ApplyAdditiveMods(_, _)
ApplyAdditiveMods(intervals, additiveMods) ==
    IF additiveMods = <<>> THEN intervals
    ELSE ApplyAdditiveMods(ApplyAdditive(intervals, Head(additiveMods)),
                           Tail(additiveMods))

\* `base` is the baseIntervals the useCallback closure holds
calculateIntervals(modifiers, base) ==
    LET split == SplitModifiers(modifiers, base, <<>>)
    IN  sort(ApplyAdditiveMods(split.intervals, split.additiveMods))

----------------------------------------------------------------------------
(* The card's handlers.  Each is computed from the values its closure holds *)
(* (locked, temp, current, base), which for a timer callback are the values *)
(* of the render in which the timer was armed.                              *)

\* handleTap whose toggle-off branch still counts the temp modifier it clears
handleTap_ToggleOffKeepsTemp(modifierLabel, locked, temp, current, base) ==
    IF temp = modifierLabel
    THEN LET newIntervals == calculateIntervals(SetAdd(locked, temp), base)
         IN  [branch |-> "toggleOff", setTemp |-> TRUE, temp |-> Null,
              setCurrent |-> TRUE, current |-> newIntervals,
              played |-> <<newIntervals>>]
    ELSE IF includes(locked, modifierLabel)
    THEN [branch |-> "replay", setTemp |-> FALSE, temp |-> temp,
          setCurrent |-> FALSE, current |-> current,
          played |-> <<current>>]
    ELSE LET newActive == SetAdd(locked, modifierLabel)
             newIntervals == calculateIntervals(newActive, base)
         IN  [branch |-> "setTemp", setTemp |-> TRUE, temp |-> modifierLabel,
              setCurrent |-> TRUE, current |-> newIntervals,
              played |-> <<newIntervals>>]

\* handleTap whose last branch keeps the previous temp modifier in the chord
handleTap_StacksTemp(modifierLabel, locked, temp, current, base) ==
    IF temp = modifierLabel
    THEN LET newIntervals == calculateIntervals(locked, base)
         IN  [branch |-> "toggleOff", setTemp |-> TRUE, temp |-> Null,
              setCurrent |-> TRUE, current |-> newIntervals,
              played |-> <<newIntervals>>]
    ELSE IF includes(locked, modifierLabel)
    THEN [branch |-> "replay", setTemp |-> FALSE, temp |-> temp,
          setCurrent |-> FALSE, current |-> current,
          played |-> <<current>>]
    ELSE LET withOld == IF temp # Null THEN SetAdd(locked, temp) ELSE locked
             newActive == SetAdd(withOld, modifierLabel)
             newIntervals == calculateIntervals(newActive, base)
         IN  [branch |-> "setTemp", setTemp |-> TRUE, temp |-> modifierLabel,
              setCurrent |-> TRUE, current |-> newIntervals,
              played |-> <<newIntervals>>]

\* handleTap: the state updates it queues and the playChord call it makes
handleTap(modifierLabel, locked, temp, current, base) ==
    IF temp = modifierLabel
    THEN LET newIntervals == calculateIntervals(locked, base)
         IN  [branch |-> "toggleOff", setTemp |-> TRUE, temp |-> Null,
              setCurrent |-> TRUE, current |-> newIntervals,
              played |-> <<newIntervals>>]
    ELSE IF includes(locked, modifierLabel)
    THEN [branch |-> "replay", setTemp |-> FALSE, temp |-> temp,
          setCurrent |-> FALSE, current |-> current,
          played |-> <<current>>]
    ELSE LET newActive == SetAdd(locked, modifierLabel)
             newIntervals == calculateIntervals(newActive, base)
         IN  [branch |-> "setTemp", setTemp |-> TRUE, temp |-> modifierLabel,
              setCurrent |-> TRUE, current |-> newIntervals,
              played |-> <<newIntervals>>]

\* handleLongPress, lines 176-188: the new locked set
NewLocked(modifierLabel, locked) ==
    IF includes(locked, modifierLabel)
    THEN SetDelete(locked, modifierLabel)
    ELSE LET conflicts == getConflictingModifiers(modifierLabel, locked)
         IN  SetAdd(DeleteAll(locked, conflicts), modifierLabel)

\* handleLongPress, lines 190-204: the temp modifier that survives
NewTemp(temp, newLocked) ==
    IF temp = Null THEN temp
    ELSE IF includes(newLocked, temp) THEN Null
    ELSE IF Len(getConflictingModifiers(temp, newLocked)) > 0 THEN Null
    ELSE temp

\* handleLongPress: the state updates it queues and the playChord call it makes
handleLongPress(modifierLabel, locked, temp, base) ==
    LET newLocked == NewLocked(modifierLabel, locked)
        newTemp == NewTemp(temp, newLocked)
        newActive == IF newTemp # Null THEN SetAdd(newLocked, newTemp) ELSE newLocked
        newIntervals == calculateIntervals(newActive, base)
    IN  [branch |-> IF includes(locked, modifierLabel) THEN "unlock" ELSE "lock",
         conflicts |-> IF includes(locked, modifierLabel) THEN <<>>
                       ELSE getConflictingModifiers(modifierLabel, locked),
         locked |-> newLocked,
         setTemp |-> temp # Null, temp |-> newTemp,
         current |-> newIntervals,
         played |-> <<newIntervals>>]

\* the `intervals` prop: the card is mounted on a major triad and a change of
\* key or mode hands it a major or a minor triad
MajorTriad == <<0, 4, 7>>

BaseChoices == {MajorTriad, <<0, 3, 7>>}

\* clearTimeout(id): a no-op when the timer has fired or was cleared
clearTimeout(id) == SelectSeq(timers, LAMBDA t : t.id # id)

\* a call of handleTap or handleLongPress: the label it was given, the branch it
\* took and the labels it evicted
Signal(kind, label, branch, conflicts) ==
    [kind |-> kind, label |-> label, branch |-> branch, conflicts |-> conflicts]

\* the card's playChord without the try/catch: a throw leaves the handler
\* before actions.selectChord
playChord_NoCatch(intervals, throws) ==
    [sounded  |-> IF throws THEN <<>> ELSE <<intervals>>,
     selected |-> IF throws THEN <<>> ELSE <<intervals>>]

\* the card's playChord(intervals): the audio call inside try/catch, then
\* actions.selectChord whatever happened
playChord(intervals, throws) ==
    [sounded  |-> IF throws THEN <<>> ELSE <<intervals>>,
     selected |-> <<intervals>>]

\* the playChord calls a handler makes (none or one)
PlayAll(ps, throws) ==
    IF ps = <<>> THEN [sounded |-> <<>>, selected |-> <<>>]
    ELSE playChord(ps[1], throws)

----------------------------------------------------------------------------
(* Initial state: a card mounted with a major triad, nothing pressed *)

CardInit ==
    /\ lockedModifiers = <<>>
    /\ tempModifier = Null
    /\ baseIntervals = MajorTriad
    /\ currentIntervals = MajorTriad
    /\ timers = <<>>
    /\ pressTimerRef = 0
    /\ isLongPressRef = FALSE
    /\ currentModifierRef = Null
    /\ emitted = <<>>
    /\ played = <<>>
    /\ nextTimerId = 1
    /\ mounted = TRUE
    /\ sounded = <<>>
    /\ audioThrows = FALSE

ResolverIdle ==
    /\ candidate = Null
    /\ active = <<>>
    /\ conflictsOut = <<>>

IntervalsIdle ==
    /\ calcModifiers = <<>>
    /\ calcBase = <<>>
    /\ calcOut = <<>>

\* the timeline before anything was added or played
TimelineIdle ==
    /\ chordProgression = <<>>
    /\ isPlaying = FALSE
    /\ currentBeat = 0
    /\ loop = FALSE
    /\ tempo = DefaultTempo
    /\ intervalRef = 0
    /\ currentIndexRef = 0
    /\ tickStreams = {}
    /\ timelineMounted = TRUE
    /\ handler = "none"
    /\ calls = <<>>

\* the audio engine before its init effect has run
EngineIdle ==
    /\ audioRef = [context |-> Null, instrument |-> FALSE,
                   initialized |-> FALSE, loading |-> FALSE]
    /\ loading = FALSE
    /\ loadFailed = FALSE
    /\ engineOut = [op |-> "none", warned |-> FALSE, threw |-> FALSE, plays |-> <<>>]

\* the replaceWith arrays of the catalog as the module creates them
InitialReplaceWith ==
    [l \in ReplaceLabels |-> FindModifier(l)[1].replaceWith]

\* the earlier card as it is mounted, and the catalog as the module creates it
LegacyIdle ==
    /\ legacyActive = <<>>
    /\ legacyCurrent = [ref |-> "prop", fresh |-> <<>>]
    /\ replaceWithMem = InitialReplaceWith
    /\ intervalsProp = MajorTriad
    /\ legacyPlayed = <<>>
    /\ legacyCalls = 0

\* no chord group looked up
GroupsIdle ==
    /\ groupMode = "major"
    /\ groupNumeral = "I"
    /\ diatonicOut = <<>>
    /\ borrowedOut = <<>>

Init == CardInit /\ ResolverIdle /\ IntervalsIdle /\ TimelineIdle /\ EngineIdle
        /\ LegacyIdle /\ GroupsIdle

----------------------------------------------------------------------------
(* Actions of the card *)

\* onPointerDown on the button of modifierLabel
handlePointerDown(modifierLabel) ==
    /\ mounted
    /\ nextTimerId <= MaxPresses
    /\ isLongPressRef' = FALSE
    /\ currentModifierRef' = modifierLabel
    /\ timers' = Append(timers,
            [id |-> nextTimerId, modifierLabel |-> modifierLabel,
             locked |-> lockedModifiers, temp |-> tempModifier,
             base |-> baseIntervals])
    /\ pressTimerRef' = nextTimerId
    /\ nextTimerId' = nextTimerId + 1
    /\ emitted' = <<>>
    /\ played' = <<>>
    /\ sounded' = <<>>
    /\ UNCHANGED <<lockedModifiers, tempModifier, currentIntervals, baseIntervals>>
    /\ UNCHANGED <<mounted, nonCardVars>>

\* the callback without the write to isLongPressRef
LongPressTimeout_NoFlag ==
    /\ timers # <<>>
    /\ LET t == Head(timers)
           r == handleLongPress(t.modifierLabel, t.locked, t.temp, t.base)
       IN  /\ IF mounted
              THEN /\ lockedModifiers' = r.locked
                   /\ tempModifier' = IF r.setTemp THEN r.temp ELSE tempModifier
                   /\ currentIntervals' = r.current
              ELSE UNCHANGED <<lockedModifiers, tempModifier, currentIntervals>>
           /\ played' = PlayAll(r.played, audioThrows).selected
           /\ sounded' = PlayAll(r.played, audioThrows).sounded
           /\ emitted' = <<Signal("LongPress", t.modifierLabel, r.branch, r.conflicts)>>
    /\ timers' = Tail(timers)
    /\ UNCHANGED <<baseIntervals, pressTimerRef, currentModifierRef, isLongPressRef>>
    /\ UNCHANGED <<nextTimerId, mounted, nonCardVars>>

\* the oldest pending timeout expires: its callback runs handleLongPress with
\* the closure of the render in which it was armed; the state setters of a card
\* that is no longer mounted change nothing, its playChord still plays
LongPressTimeout ==
    /\ timers # <<>>
    /\ LET t == Head(timers)
           r == handleLongPress(t.modifierLabel, t.locked, t.temp, t.base)
       IN  /\ isLongPressRef' = TRUE
           /\ IF mounted
              THEN /\ lockedModifiers' = r.locked
                   /\ tempModifier' = IF r.setTemp THEN r.temp ELSE tempModifier
                   /\ currentIntervals' = r.current
              ELSE UNCHANGED <<lockedModifiers, tempModifier, currentIntervals>>
           /\ played' = PlayAll(r.played, audioThrows).selected
           /\ sounded' = PlayAll(r.played, audioThrows).sounded
           /\ emitted' = <<Signal("LongPress", t.modifierLabel, r.branch, r.conflicts)>>
    /\ timers' = Tail(timers)
    /\ UNCHANGED <<baseIntervals, pressTimerRef, currentModifierRef>>
    /\ UNCHANGED <<nextTimerId, mounted, nonCardVars>>

\* onPointerUp
handlePointerUp ==
    /\ mounted
    /\ timers' = IF pressTimerRef # 0 THEN clearTimeout(pressTimerRef) ELSE timers
    /\ pressTimerRef' = 0
    /\ IF ~isLongPressRef /\ currentModifierRef # Null
       THEN LET r == handleTap(currentModifierRef, lockedModifiers, tempModifier,
                               currentIntervals, baseIntervals)
            IN  /\ tempModifier' = IF r.setTemp THEN r.temp ELSE tempModifier
                /\ currentIntervals' = IF r.setCurrent THEN r.current
                                       ELSE currentIntervals
                /\ played' = PlayAll(r.played, audioThrows).selected
                /\ sounded' = PlayAll(r.played, audioThrows).sounded
                /\ emitted' = <<Signal("Tap", currentModifierRef, r.branch, <<>>)>>
       ELSE /\ UNCHANGED <<tempModifier, currentIntervals>>
            /\ played' = <<>>
            /\ sounded' = <<>>
            /\ emitted' = <<>>
    /\ currentModifierRef' = Null
    /\ UNCHANGED <<lockedModifiers, baseIntervals, isLongPressRef>>
    /\ UNCHANGED <<nextTimerId, mounted, nonCardVars>>

\* the handler without the write to currentModifierRef
handlePointerLeave_KeepsLabel ==
    /\ mounted
    /\ timers' = IF pressTimerRef # 0 THEN clearTimeout(pressTimerRef) ELSE timers
    /\ pressTimerRef' = 0
    /\ emitted' = <<>>
    /\ played' = <<>>
    /\ sounded' = <<>>
    /\ UNCHANGED <<lockedModifiers, tempModifier, currentIntervals, baseIntervals,
                   isLongPressRef, currentModifierRef>>
    /\ UNCHANGED <<nextTimerId, mounted, nonCardVars>>

\* onPointerLeave / onPointerCancel
handlePointerLeave ==
    /\ mounted
    /\ timers' = IF pressTimerRef # 0 THEN clearTimeout(pressTimerRef) ELSE timers
    /\ pressTimerRef' = 0
    /\ currentModifierRef' = Null
    /\ emitted' = <<>>
    /\ played' = <<>>
    /\ sounded' = <<>>
    /\ UNCHANGED <<lockedModifiers, tempModifier, currentIntervals, baseIntervals,
                   isLongPressRef>>
    /\ UNCHANGED <<nextTimerId, mounted, nonCardVars>>

\* onClick of the card header
handleChordClick ==
    /\ mounted
    /\ played' = playChord(currentIntervals, audioThrows).selected
    /\ sounded' = playChord(currentIntervals, audioThrows).sounded
    /\ emitted' = <<>>
    /\ UNCHANGED <<lockedModifiers, tempModifier, currentIntervals, baseIntervals,
                   timers, pressTimerRef, isLongPressRef, currentModifierRef>>
    /\ UNCHANGED <<nextTimerId, mounted, nonCardVars>>

\* the key, the mode or the intervals prop changes: the reset effect runs
ResetEffect(newBase) ==
    /\ mounted
    /\ lockedModifiers' = <<>>
    /\ tempModifier' = Null
    /\ currentIntervals' = newBase
    /\ baseIntervals' = newBase
    /\ emitted' = <<>>
    /\ played' = <<>>
    /\ sounded' = <<>>
    /\ UNCHANGED <<timers, pressTimerRef, isLongPressRef, currentModifierRef>>
    /\ UNCHANGED <<nextTimerId, mounted, nonCardVars>>

\* the card is unmounted: the cleanup of the timer effect clears the timeout
\* pressTimerRef holds and leaves the ref as it is
Unmount ==
    /\ mounted
    /\ mounted' = FALSE
    /\ timers' = IF pressTimerRef # 0 THEN clearTimeout(pressTimerRef) ELSE timers
    /\ emitted' = <<>>
    /\ played' = <<>>
    /\ sounded' = <<>>
    /\ UNCHANGED <<lockedModifiers, tempModifier, currentIntervals, baseIntervals,
                   pressTimerRef, isLongPressRef, currentModifierRef>>
    /\ UNCHANGED <<nextTimerId, nonCardVars>>

Next ==
    \/ \E modifierLabel \in CatalogLabels : handlePointerDown(modifierLabel)
    \/ LongPressTimeout
    \/ handlePointerUp
    \/ handlePointerLeave
    \/ handleChordClick
    \/ \E newBase \in BaseChoices : ResetEffect(newBase)
    \/ Unmount

Spec == Init /\ [][Next]_vars

\* the playback capability starts or stops throwing
AudioFlips ==
    /\ audioThrows' = ~audioThrows
    /\ UNCHANGED <<cardVars, resolverVars, intervalVars, timelineVars, engineVars, legacyVars,
                   groupVars>>

\* the gestures of a mounted card over a capability that may throw
ThrowNext ==
    \/ \E modifierLabel \in CatalogLabels : handlePointerDown(modifierLabel)
    \/ LongPressTimeout
    \/ handlePointerUp
    \/ handlePointerLeave
    \/ handleChordClick
    \/ AudioFlips

SpecThrow == Init /\ [][ThrowNext]_vars

----------------------------------------------------------------------------
(* The conflict resolver on its own: every candidate against every active  *)
(* set of at most MaxActive labels, a label without a category included.   *)

\* a label MODIFIER_CATEGORIES has no entry for
UnknownLabel == "b5"

ResolverLabels == CatalogLabels \cup {UnknownLabel}

\* the duplicate-free sequences over ResolverLabels of length <= MaxActive
ActiveSets ==
    UNION {{q \in [1..n -> ResolverLabels] :
               \A i, j \in 1..n : i # j => q[i] # q[j]} : n \in 0..MaxActive}

ResolverInit ==
    /\ CardInit
    /\ GroupsIdle
    /\ LegacyIdle
    /\ EngineIdle
    /\ IntervalsIdle
    /\ TimelineIdle
    /\ candidate \in ResolverLabels
    /\ active \in ActiveSets
    /\ conflictsOut = <<>>

\* one call getConflictingModifiers(candidate, active)
Resolve ==
    /\ conflictsOut = <<>>
    /\ conflictsOut' = <<getConflictingModifiers(candidate, active)>>
    /\ UNCHANGED <<candidate, active>>
    /\ UNCHANGED <<cardVars, intervalVars, timelineVars, audioVars, engineVars, legacyVars,
                   groupVars>>

ResolverNext == Resolve

SpecResolver == ResolverInit /\ [][ResolverNext]_vars

----------------------------------------------------------------------------
(* calculateIntervals on its own: every active set of at most MaxActive     *)
(* labels, in every insertion order, over every base interval set of at     *)
(* most MaxBaseLen of the tones below.                                      *)

\* semitone offsets a base may hold: the triad and seventh tones, the tones the
\* catalog adds, and the two ends of the range 0..23
BaseTones == {0, 3, 4, 7, 10, 14, 23}

RECURSIVE Ascending(_)
Ascending(S) ==
    IF S = {} THEN <<>>
    ELSE LET m == CHOOSE x \in S : \A y \in S : x <= y
         IN  <<m>> \o Ascending(S \ {m})

\* the sorted, duplicate-free bases
BaseSets == {Ascending(S) : S \in {T \in SUBSET BaseTones : Cardinality(T) <= MaxBaseLen}}

IntervalsInit ==
    /\ CardInit
    /\ GroupsIdle
    /\ LegacyIdle
    /\ EngineIdle
    /\ ResolverIdle
    /\ TimelineIdle
    /\ calcModifiers \in ActiveSets
    /\ calcBase \in BaseSets
    /\ calcOut = <<>>

\* one call calculateIntervals(calcModifiers) in a card whose base is calcBase
Calculate ==
    /\ calcOut = <<>>
    /\ calcOut' = <<calculateIntervals(calcModifiers, calcBase)>>
    /\ UNCHANGED <<calcModifiers, calcBase>>
    /\ UNCHANGED <<cardVars, resolverVars, timelineVars, audioVars, engineVars, legacyVars,
                   groupVars>>

IntervalsNext == Calculate

SpecIntervals == IntervalsInit /\ [][IntervalsNext]_vars

----------------------------------------------------------------------------
(* The progression timeline: handlePlayPause and its setInterval callback   *)

\* durations, in beats, of the entries added to the progression
Durations == {1, 2, 4}

\* ids of the entries of the progression
EntryIds == 1..MaxEntries

\* what the user can type into the tempo field
TempoTexts == {"", "0", "-60", "90", "120"}

\* parseInt of the field's text: NaN for the empty text
parseInt(text) ==
    CASE text = ""    -> [nan |-> TRUE,  n |-> 0]
      [] text = "0"   -> [nan |-> FALSE, n |-> 0]
      [] text = "-60" -> [nan |-> FALSE, n |-> 0 - 60]
      [] text = "90"  -> [nan |-> FALSE, n |-> 90]
      [] text = "120" -> [nan |-> FALSE, n |-> 120]

\* parseInt(e.target.value) || 120
TempoOf(text) ==
    LET p == parseInt(text)
    IN  IF p.nan \/ p.n = 0 THEN DefaultTempo ELSE p.n

Call(fn, arg) == [fn |-> fn, arg |-> arg]

\* setPlaybackPlaying takes a boolean: 1 for true, 0 for false in the log
PlayingArg(b) == IF b THEN 1 ELSE 0

\* clearInterval(intervalRef.current) behind its null test
clearInterval(id) == {t \in tickStreams : t.id # id}

\* the handle setInterval returns: one that no running stream holds
NewHandle ==
    CHOOSE n \in 1..(Cardinality(tickStreams) + 1) : \A t \in tickStreams : t.id # n

\* the stop sequence shared by handlePlayPause, handleRemoveChord and
\* handleClearProgression
StopCalls == <<Call("setPlaybackPlaying", PlayingArg(FALSE)), Call("setPlaybackBeat", 0)>>

\* the stop branch without the clearInterval
handlePlayPause_StopKeepsTick ==
    /\ timelineMounted
    /\ handler' = "handlePlayPause"
    /\ IF isPlaying
       THEN /\ intervalRef' = 0
            /\ isPlaying' = FALSE
            /\ currentBeat' = 0
            /\ currentIndexRef' = 0
            /\ calls' = StopCalls
            /\ UNCHANGED tickStreams
       ELSE IF Len(chordProgression) = 0
       THEN /\ calls' = <<>>
            /\ UNCHANGED <<isPlaying, currentBeat, currentIndexRef, intervalRef, tickStreams>>
       ELSE /\ isPlaying' = TRUE
            /\ currentIndexRef' = 0
            /\ currentBeat' = 0
            /\ calls' = <<Call("setPlaybackPlaying", PlayingArg(TRUE)),
                          Call("setPlaybackBeat", 0), Call("playChord", 0)>>
            /\ intervalRef' = NewHandle
            /\ tickStreams' = tickStreams \cup
                   {[id |-> NewHandle, chordIndex |-> 0, beatCount |-> 0, tickCount |-> 0,
                     progression |-> chordProgression, loop |-> loop,
                     msPerBeat |-> MsPerMinute \div tempo]}
    /\ UNCHANGED <<chordProgression, loop, tempo, timelineMounted>>
    /\ UNCHANGED nonTimelineVars

\* the handler without the return on an empty progression
handlePlayPause_PlaysEmpty ==
    /\ timelineMounted
    /\ handler' = "handlePlayPause"
    /\ IF isPlaying
       THEN /\ tickStreams' = IF intervalRef # 0 THEN clearInterval(intervalRef)
                            ELSE tickStreams
            /\ intervalRef' = 0
            /\ isPlaying' = FALSE
            /\ currentBeat' = 0
            /\ currentIndexRef' = 0
            /\ calls' = StopCalls
       ELSE /\ isPlaying' = TRUE
            /\ currentIndexRef' = 0
            /\ currentBeat' = 0
            /\ calls' = <<Call("setPlaybackPlaying", PlayingArg(TRUE)),
                          Call("setPlaybackBeat", 0)>>
                        \o (IF Len(chordProgression) > 0
                            THEN <<Call("playChord", 0)>> ELSE <<>>)
            /\ intervalRef' = NewHandle
            /\ tickStreams' = tickStreams \cup
                   {[id |-> NewHandle, chordIndex |-> 0, beatCount |-> 0, tickCount |-> 0,
                     progression |-> chordProgression, loop |-> loop,
                     msPerBeat |-> MsPerMinute \div tempo]}
    /\ UNCHANGED <<chordProgression, loop, tempo, timelineMounted>>
    /\ UNCHANGED nonTimelineVars

\* onClick of the play button
handlePlayPause ==
    /\ timelineMounted
    /\ handler' = "handlePlayPause"
    /\ IF isPlaying
       THEN /\ tickStreams' = IF intervalRef # 0 THEN clearInterval(intervalRef)
                            ELSE tickStreams
            /\ intervalRef' = 0
            /\ isPlaying' = FALSE
            /\ currentBeat' = 0
            /\ currentIndexRef' = 0
            /\ calls' = StopCalls
       ELSE IF Len(chordProgression) = 0
       THEN /\ calls' = <<>>
            /\ UNCHANGED <<isPlaying, currentBeat, currentIndexRef, intervalRef, tickStreams>>
       ELSE /\ isPlaying' = TRUE
            /\ currentIndexRef' = 0
            /\ currentBeat' = 0
            /\ calls' = <<Call("setPlaybackPlaying", PlayingArg(TRUE)),
                          Call("setPlaybackBeat", 0), Call("playChord", 0)>>
            /\ intervalRef' = NewHandle
            /\ tickStreams' = tickStreams \cup
                   {[id |-> NewHandle, chordIndex |-> 0, beatCount |-> 0, tickCount |-> 0,
                     progression |-> chordProgression, loop |-> loop,
                     msPerBeat |-> MsPerMinute \div tempo]}
    /\ UNCHANGED <<chordProgression, loop, tempo, timelineMounted>>
    /\ UNCHANGED nonTimelineVars

\* the callback at the end of a run without clearInterval and without the
\* return: it goes on to the "play next chord" part
TickStream_NoStopAtEnd(t) ==
    LET beatCount == t.beatCount + 1
        hasChord  == t.chordIndex < Len(t.progression)
        advance   == hasChord /\ beatCount >= t.progression[t.chordIndex + 1].duration
        chordIndex == t.chordIndex + 1
        pastEnd   == chordIndex >= Len(t.progression)
    IN  /\ handler' = "tick"
        /\ IF ~advance
           THEN /\ tickStreams' = (tickStreams \ {t}) \cup {[t EXCEPT !.beatCount = beatCount, !.tickCount = t.tickCount + 1]}
                /\ calls' = <<>>
                /\ UNCHANGED <<isPlaying, currentBeat, intervalRef>>
           ELSE IF pastEnd /\ ~t.loop
           THEN /\ tickStreams' = (tickStreams \ {t}) \cup
                       {[t EXCEPT !.beatCount = 0, !.chordIndex = chordIndex,
                                  !.tickCount = t.tickCount + 1]}
                /\ isPlaying' = FALSE
                /\ currentBeat' = 0
                /\ calls' = StopCalls
                /\ UNCHANGED intervalRef
           ELSE LET next == IF pastEnd THEN 0 ELSE chordIndex
                IN  /\ tickStreams' = (tickStreams \ {t}) \cup
                           {[t EXCEPT !.beatCount = 0, !.chordIndex = next,
                                  !.tickCount = IF pastEnd THEN 0
                                                ELSE t.tickCount + 1]}
                    /\ currentBeat' = next
                    /\ calls' = <<Call("playChord", next), Call("setPlaybackBeat", next)>>
                    /\ UNCHANGED <<isPlaying, intervalRef>>
        /\ UNCHANGED <<chordProgression, loop, tempo, currentIndexRef, timelineMounted>>
        /\ UNCHANGED nonTimelineVars

\* the callback wrapping to the second entry instead of the first
TickStream_WrapSkipsFirst(t) ==
    LET beatCount == t.beatCount + 1
        hasChord  == t.chordIndex < Len(t.progression)
        advance   == hasChord /\ beatCount >= t.progression[t.chordIndex + 1].duration
        chordIndex == t.chordIndex + 1
        pastEnd   == chordIndex >= Len(t.progression)
    IN  /\ handler' = "tick"
        /\ IF ~advance
           THEN /\ tickStreams' = (tickStreams \ {t}) \cup {[t EXCEPT !.beatCount = beatCount, !.tickCount = t.tickCount + 1]}
                /\ calls' = <<>>
                /\ UNCHANGED <<isPlaying, currentBeat, intervalRef>>
           ELSE IF pastEnd /\ ~t.loop
           THEN /\ tickStreams' =
                       {u \in (tickStreams \ {t}) \cup
                              {[t EXCEPT !.beatCount = 0, !.chordIndex = chordIndex,
                                  !.tickCount = t.tickCount + 1]} :
                           intervalRef = 0 \/ u.id # intervalRef}
                /\ intervalRef' = 0
                /\ isPlaying' = FALSE
                /\ currentBeat' = 0
                /\ calls' = StopCalls
           ELSE LET next == IF pastEnd THEN (IF Len(t.progression) > 1 THEN 1 ELSE 0)
                            ELSE chordIndex
                IN  /\ tickStreams' = (tickStreams \ {t}) \cup
                           {[t EXCEPT !.beatCount = 0, !.chordIndex = next,
                                  !.tickCount = IF pastEnd THEN 0
                                                ELSE t.tickCount + 1]}
                    /\ currentBeat' = next
                    /\ calls' = <<Call("playChord", next), Call("setPlaybackBeat", next)>>
                    /\ UNCHANGED <<isPlaying, intervalRef>>
        /\ UNCHANGED <<chordProgression, loop, tempo, currentIndexRef, timelineMounted>>
        /\ UNCHANGED nonTimelineVars

\* the callback comparing the beat count with > instead of >=
TickStream_LateAdvance(t) ==
    LET beatCount == t.beatCount + 1
        hasChord  == t.chordIndex < Len(t.progression)
        advance   == hasChord /\ beatCount > t.progression[t.chordIndex + 1].duration
        chordIndex == t.chordIndex + 1
        pastEnd   == chordIndex >= Len(t.progression)
    IN  /\ handler' = "tick"
        /\ IF ~advance
           THEN /\ tickStreams' = (tickStreams \ {t}) \cup {[t EXCEPT !.beatCount = beatCount, !.tickCount = t.tickCount + 1]}
                /\ calls' = <<>>
                /\ UNCHANGED <<isPlaying, currentBeat, intervalRef>>
           ELSE IF pastEnd /\ ~t.loop
           THEN /\ tickStreams' =
                       {u \in (tickStreams \ {t}) \cup
                              {[t EXCEPT !.beatCount = 0, !.chordIndex = chordIndex,
                                  !.tickCount = t.tickCount + 1]} :
                           intervalRef = 0 \/ u.id # intervalRef}
                /\ intervalRef' = 0
                /\ isPlaying' = FALSE
                /\ currentBeat' = 0
                /\ calls' = StopCalls
           ELSE LET next == IF pastEnd THEN 0 ELSE chordIndex
                IN  /\ tickStreams' = (tickStreams \ {t}) \cup
                           {[t EXCEPT !.beatCount = 0, !.chordIndex = next,
                                  !.tickCount = IF pastEnd THEN 0
                                                ELSE t.tickCount + 1]}
                    /\ currentBeat' = next
                    /\ calls' = <<Call("playChord", next), Call("setPlaybackBeat", next)>>
                    /\ UNCHANGED <<isPlaying, intervalRef>>
        /\ UNCHANGED <<chordProgression, loop, tempo, currentIndexRef, timelineMounted>>
        /\ UNCHANGED nonTimelineVars

\* the callback that wraps to the first entry whatever the loop flag
TickStream_AlwaysWraps(t) ==
    LET beatCount == t.beatCount + 1
        hasChord  == t.chordIndex < Len(t.progression)
        advance   == hasChord /\ beatCount >= t.progression[t.chordIndex + 1].duration
        chordIndex == t.chordIndex + 1
        pastEnd   == chordIndex >= Len(t.progression)
    IN  /\ handler' = "tick"
        /\ IF ~advance
           THEN /\ tickStreams' = (tickStreams \ {t}) \cup {[t EXCEPT !.beatCount = beatCount, !.tickCount = t.tickCount + 1]}
                /\ calls' = <<>>
                /\ UNCHANGED <<isPlaying, currentBeat, intervalRef>>
           ELSE IF FALSE
           THEN /\ tickStreams' =
                       {u \in (tickStreams \ {t}) \cup
                              {[t EXCEPT !.beatCount = 0, !.chordIndex = chordIndex,
                                  !.tickCount = t.tickCount + 1]} :
                           intervalRef = 0 \/ u.id # intervalRef}
                /\ intervalRef' = 0
                /\ isPlaying' = FALSE
                /\ currentBeat' = 0
                /\ calls' = StopCalls
           ELSE LET next == IF pastEnd THEN 0 ELSE chordIndex
                IN  /\ tickStreams' = (tickStreams \ {t}) \cup
                           {[t EXCEPT !.beatCount = 0, !.chordIndex = next,
                                  !.tickCount = IF pastEnd THEN 0
                                                ELSE t.tickCount + 1]}
                    /\ currentBeat' = next
                    /\ calls' = <<Call("playChord", next), Call("setPlaybackBeat", next)>>
                    /\ UNCHANGED <<isPlaying, intervalRef>>
        /\ UNCHANGED <<chordProgression, loop, tempo, currentIndexRef, timelineMounted>>
        /\ UNCHANGED nonTimelineVars

\* the callback reading the loop flag of the latest render
TickStream_LiveLoop(t) ==
    LET beatCount == t.beatCount + 1
        hasChord  == t.chordIndex < Len(t.progression)
        advance   == hasChord /\ beatCount >= t.progression[t.chordIndex + 1].duration
        chordIndex == t.chordIndex + 1
        pastEnd   == chordIndex >= Len(t.progression)
    IN  /\ handler' = "tick"
        /\ IF ~advance
           THEN /\ tickStreams' = (tickStreams \ {t}) \cup {[t EXCEPT !.beatCount = beatCount, !.tickCount = t.tickCount + 1]}
                /\ calls' = <<>>
                /\ UNCHANGED <<isPlaying, currentBeat, intervalRef>>
           ELSE IF pastEnd /\ ~loop
           THEN /\ tickStreams' =
                       {u \in (tickStreams \ {t}) \cup
                              {[t EXCEPT !.beatCount = 0, !.chordIndex = chordIndex,
                                  !.tickCount = t.tickCount + 1]} :
                           intervalRef = 0 \/ u.id # intervalRef}
                /\ intervalRef' = 0
                /\ isPlaying' = FALSE
                /\ currentBeat' = 0
                /\ calls' = StopCalls
           ELSE LET next == IF pastEnd THEN 0 ELSE chordIndex
                IN  /\ tickStreams' = (tickStreams \ {t}) \cup
                           {[t EXCEPT !.beatCount = 0, !.chordIndex = next,
                                  !.tickCount = IF pastEnd THEN 0
                                                ELSE t.tickCount + 1]}
                    /\ currentBeat' = next
                    /\ calls' = <<Call("playChord", next), Call("setPlaybackBeat", next)>>
                    /\ UNCHANGED <<isPlaying, intervalRef>>
        /\ UNCHANGED <<chordProgression, loop, tempo, currentIndexRef, timelineMounted>>
        /\ UNCHANGED nonTimelineVars

\* one run of the setInterval callback of stream t: state.chordProgression and
\* state.playbackState.loop are those of the render in which play was pressed,
\* chordIndex and beatCount are the locals of that call, intervalRef is the ref;
\* tickCount counts the runs of the callback since play or since the last wrap
TickStream(t) ==
    LET beatCount == t.beatCount + 1
        hasChord  == t.chordIndex < Len(t.progression)
        advance   == hasChord /\ beatCount >= t.progression[t.chordIndex + 1].duration
        chordIndex == t.chordIndex + 1
        pastEnd   == chordIndex >= Len(t.progression)
    IN  /\ handler' = "tick"
        /\ IF ~advance
           THEN /\ tickStreams' = (tickStreams \ {t}) \cup {[t EXCEPT !.beatCount = beatCount, !.tickCount = t.tickCount + 1]}
                /\ calls' = <<>>
                /\ UNCHANGED <<isPlaying, currentBeat, intervalRef>>
           ELSE IF pastEnd /\ ~t.loop
           THEN /\ tickStreams' =
                       {u \in (tickStreams \ {t}) \cup
                              {[t EXCEPT !.beatCount = 0, !.chordIndex = chordIndex,
                                  !.tickCount = t.tickCount + 1]} :
                           intervalRef = 0 \/ u.id # intervalRef}
                /\ intervalRef' = 0
                /\ isPlaying' = FALSE
                /\ currentBeat' = 0
                /\ calls' = StopCalls
           ELSE LET next == IF pastEnd THEN 0 ELSE chordIndex
                IN  /\ tickStreams' = (tickStreams \ {t}) \cup
                           {[t EXCEPT !.beatCount = 0, !.chordIndex = next,
                                  !.tickCount = IF pastEnd THEN 0
                                                ELSE t.tickCount + 1]}
                    /\ currentBeat' = next
                    /\ calls' = <<Call("playChord", next), Call("setPlaybackBeat", next)>>
                    /\ UNCHANGED <<isPlaying, intervalRef>>
        /\ UNCHANGED <<chordProgression, loop, tempo, currentIndexRef, timelineMounted>>
        /\ UNCHANGED nonTimelineVars

\* the interval of some running stream elapses
Tick == \E t \in tickStreams : TickStream(t)

\* the handler without the stop that precedes the removal
handleRemoveChord_NoStop(id) ==
    /\ timelineMounted
    /\ \E i \in DOMAIN chordProgression : chordProgression[i].id = id
    /\ handler' = "handleRemoveChord"
    /\ calls' = <<>>
    /\ UNCHANGED <<tickStreams, intervalRef, isPlaying, currentBeat>>
    /\ chordProgression' = SelectSeq(chordProgression, LAMBDA e : e.id # id)
    /\ UNCHANGED <<loop, tempo, currentIndexRef, timelineMounted>>
    /\ UNCHANGED nonTimelineVars

\* onClick of the remove button of the entry id
handleRemoveChord(id) ==
    /\ timelineMounted
    /\ \E i \in DOMAIN chordProgression : chordProgression[i].id = id
    /\ handler' = "handleRemoveChord"
    /\ IF isPlaying
       THEN /\ tickStreams' = IF intervalRef # 0 THEN clearInterval(intervalRef)
                            ELSE tickStreams
            /\ intervalRef' = 0
            /\ isPlaying' = FALSE
            /\ currentBeat' = 0
            /\ calls' = StopCalls
       ELSE /\ calls' = <<>>
            /\ UNCHANGED <<tickStreams, intervalRef, isPlaying, currentBeat>>
    /\ chordProgression' = SelectSeq(chordProgression, LAMBDA e : e.id # id)
    /\ UNCHANGED <<loop, tempo, currentIndexRef, timelineMounted>>
    /\ UNCHANGED nonTimelineVars

\* onClick of the clear button, rendered while the progression is not empty
handleClearProgression ==
    /\ timelineMounted
    /\ Len(chordProgression) > 0
    /\ handler' = "handleClearProgression"
    /\ IF isPlaying
       THEN /\ tickStreams' = IF intervalRef # 0 THEN clearInterval(intervalRef)
                            ELSE tickStreams
            /\ intervalRef' = 0
            /\ isPlaying' = FALSE
            /\ currentBeat' = 0
            /\ calls' = StopCalls
       ELSE /\ calls' = <<>>
            /\ UNCHANGED <<tickStreams, intervalRef, isPlaying, currentBeat>>
    /\ chordProgression' = <<>>
    /\ UNCHANGED <<loop, tempo, currentIndexRef, timelineMounted>>
    /\ UNCHANGED nonTimelineVars

\* onClick of the play button of the entry at position index (from 0)
handlePlayChord(index) ==
    /\ timelineMounted
    /\ index < Len(chordProgression)
    /\ handler' = "handlePlayChord"
    /\ calls' = <<Call("playChord", index)>>
    /\ UNCHANGED <<chordProgression, isPlaying, currentBeat, loop, tempo, intervalRef,
                   currentIndexRef, tickStreams, timelineMounted>>
    /\ UNCHANGED nonTimelineVars

\* onClick of the loop button
toggleLoop ==
    /\ timelineMounted
    /\ handler' = "toggleLoop"
    /\ loop' = ~loop
    /\ calls' = <<>>
    /\ UNCHANGED <<chordProgression, isPlaying, currentBeat, tempo, intervalRef,
                   currentIndexRef, tickStreams, timelineMounted>>
    /\ UNCHANGED nonTimelineVars

\* onChange of the tempo field
setTempo(text) ==
    /\ timelineMounted
    /\ handler' = "setTempo"
    /\ tempo' = TempoOf(text)
    /\ calls' = <<>>
    /\ UNCHANGED <<chordProgression, isPlaying, currentBeat, loop, intervalRef,
                   currentIndexRef, tickStreams, timelineMounted>>
    /\ UNCHANGED nonTimelineVars

\* a chord of the palette is appended to the progression
addToProgression(id, duration) ==
    /\ Len(chordProgression) < MaxEntries
    /\ \A i \in DOMAIN chordProgression : chordProgression[i].id # id
    /\ handler' = "addToProgression"
    /\ chordProgression' = Append(chordProgression, [id |-> id, duration |-> duration])
    /\ calls' = <<>>
    /\ UNCHANGED <<isPlaying, currentBeat, loop, tempo, intervalRef, currentIndexRef,
                   tickStreams, timelineMounted>>
    /\ UNCHANGED nonTimelineVars

\* the cleanup without the clearInterval
TimelineUnmount_KeepsTick ==
    /\ timelineMounted
    /\ timelineMounted' = FALSE
    /\ handler' = "unmount"
    /\ UNCHANGED tickStreams
    /\ intervalRef' = 0
    /\ calls' = <<>>
    /\ UNCHANGED <<chordProgression, isPlaying, currentBeat, loop, tempo, currentIndexRef>>
    /\ UNCHANGED nonTimelineVars

\* the timeline is unmounted: the cleanup clears the interval the ref holds;
\* the playback state lives in the context and stays as it is
TimelineUnmount ==
    /\ timelineMounted
    /\ timelineMounted' = FALSE
    /\ handler' = "unmount"
    /\ tickStreams' = IF intervalRef # 0 THEN clearInterval(intervalRef) ELSE tickStreams
    /\ intervalRef' = 0
    /\ calls' = <<>>
    /\ UNCHANGED <<chordProgression, isPlaying, currentBeat, loop, tempo, currentIndexRef>>
    /\ UNCHANGED nonTimelineVars

\* a new ChordTimeline instance is mounted: its refs start at null and 0
TimelineMount ==
    /\ ~timelineMounted
    /\ timelineMounted' = TRUE
    /\ handler' = "mount"
    /\ intervalRef' = 0
    /\ currentIndexRef' = 0
    /\ calls' = <<>>
    /\ UNCHANGED <<chordProgression, isPlaying, currentBeat, loop, tempo, tickStreams>>
    /\ UNCHANGED nonTimelineVars

TimelineInit ==
    /\ CardInit
    /\ GroupsIdle
    /\ LegacyIdle
    /\ EngineIdle
    /\ ResolverIdle
    /\ IntervalsIdle
    /\ TimelineIdle

TimelineNext ==
    \/ handlePlayPause
    \/ Tick
    \/ \E id \in EntryIds : handleRemoveChord(id)
    \/ handleClearProgression
    \/ \E index \in 0..(MaxEntries - 1) : handlePlayChord(index)
    \/ toggleLoop
    \/ \E text \in TempoTexts : setTempo(text)
    \/ \E id \in EntryIds, duration \in Durations : addToProgression(id, duration)
    \/ TimelineUnmount
    \/ TimelineMount

SpecTimeline == TimelineInit /\ [][TimelineNext]_vars

\* playback that is left alone: the user sets up the progression and the loop
\* flag and presses play while nothing is playing, and touches nothing while
\* the interval runs; setInterval keeps calling the callback until cleared
PlaybackIdle == ~isPlaying /\ tickStreams = {}

UnattendedNext ==
    \/ (PlaybackIdle /\ handlePlayPause)
    \/ (PlaybackIdle /\ toggleLoop)
    \/ (PlaybackIdle /\ \E id \in EntryIds, duration \in Durations :
                            addToProgression(id, duration))
    \/ Tick

SpecUnattended == TimelineInit /\ [][UnattendedNext]_vars /\ WF_vars(Tick)

----------------------------------------------------------------------------
(* The audio engine: initAudio, playNote and playChord of useAudioEngine     *)

\* frequencies, in Hz, handed to the engine: C4, D4, E4, G4, A4, C5 and two
\* out-of-tune tones either side of the quarter tone above A4
Frequencies == {262, 294, 330, 392, 440, 450, 455, 523}

\* Math.round(69 + 12 * Math.log2(frequency / 440)) on those frequencies
frequencyToMidi(frequency) ==
    CASE frequency = 262 -> 60
      [] frequency = 294 -> 62
      [] frequency = 330 -> 64
      [] frequency = 392 -> 67
      [] frequency = 440 -> 69
      [] frequency = 450 -> 69
      [] frequency = 455 -> 70
      [] frequency = 523 -> 72

\* the chords handed to playChord: ascending frequencies
Chords == {Ascending(S) : S \in {T \in SUBSET Frequencies : Cardinality(T) <= MaxNotes}}

\* states of the AudioContext the engine has created
ContextStates == {"suspended", "running"}

\* the test both play functions start with
Unready == ~audioRef.instrument \/ ~audioRef.initialized \/ audioRef.context = Null

EngineOut(op, warned, threw, plays) ==
    [op |-> op, warned |-> warned, threw |-> threw, plays |-> plays]

RECURSIVE InstrumentPlays(_, _)
InstrumentPlays(frequencies, gain) ==
    IF frequencies = <<>> THEN <<>>
    ELSE <<[midi |-> frequencyToMidi(Head(frequencies)), gain |-> gain]>>
         \o InstrumentPlays(Tail(frequencies), gain)

\* the init effect: one call of initAudio up to its await
initAudio ==
    /\ IF audioRef.initialized \/ audioRef.loading
       THEN UNCHANGED <<audioRef, loading>>
       ELSE /\ audioRef' = [audioRef EXCEPT !.loading = TRUE]
            /\ loading' = TRUE
    /\ engineOut' = EngineOut("initAudio", FALSE, FALSE, <<>>)
    /\ UNCHANGED loadFailed
    /\ UNCHANGED nonEngineVars

\* the context was created and Soundfont.instrument resolves
LoadSucceeds(contextState) ==
    /\ audioRef.loading
    /\ audioRef' = [context |-> contextState, instrument |-> TRUE,
                    initialized |-> TRUE, loading |-> FALSE]
    /\ loading' = FALSE
    /\ engineOut' = EngineOut("initAudio", FALSE, FALSE, <<>>)
    /\ UNCHANGED loadFailed
    /\ UNCHANGED nonEngineVars

\* creating the context throws or Soundfont.instrument rejects: the catch branch
LoadFails ==
    /\ audioRef.loading
    /\ audioRef' = [audioRef EXCEPT !.loading = FALSE]
    /\ loading' = FALSE
    /\ loadFailed' = TRUE
    /\ engineOut' = EngineOut("initAudio", FALSE, FALSE, <<>>)
    /\ UNCHANGED nonEngineVars

\* the browser suspends the running context
ContextSuspends ==
    /\ audioRef.context = "running"
    /\ audioRef' = [audioRef EXCEPT !.context = "suspended"]
    /\ engineOut' = EngineOut("suspend", FALSE, FALSE, <<>>)
    /\ UNCHANGED <<loading, loadFailed>>
    /\ UNCHANGED nonEngineVars

\* playNote without the readiness test: it reads context.state of a null context
playNote_NoGuard(frequency) ==
    /\ IF audioRef.context = Null \/ ~audioRef.instrument
       THEN /\ engineOut' = EngineOut("playNote", FALSE, TRUE, <<>>)
            /\ UNCHANGED audioRef
       ELSE /\ audioRef' = [audioRef EXCEPT !.context = "running"]
            /\ engineOut' = EngineOut("playNote", FALSE, FALSE,
                                      InstrumentPlays(<<frequency>>, NoteGain))
    /\ UNCHANGED <<loading, loadFailed>>
    /\ UNCHANGED nonEngineVars

\* playNote(frequency): a suspended context is resumed before the note plays
playNote(frequency) ==
    /\ IF Unready
       THEN /\ engineOut' = EngineOut("playNote", TRUE, FALSE, <<>>)
            /\ UNCHANGED audioRef
       ELSE /\ audioRef' = [audioRef EXCEPT !.context = "running"]
            /\ engineOut' = EngineOut("playNote", FALSE, FALSE,
                                      InstrumentPlays(<<frequency>>, NoteGain))
    /\ UNCHANGED <<loading, loadFailed>>
    /\ UNCHANGED nonEngineVars

\* playChord(frequencies) of the engine: every frequency is played at once
enginePlayChord(frequencies) ==
    /\ IF Unready
       THEN /\ engineOut' = EngineOut("playChord", TRUE, FALSE, <<>>)
            /\ UNCHANGED audioRef
       ELSE /\ audioRef' = [audioRef EXCEPT !.context = "running"]
            /\ engineOut' = EngineOut("playChord", FALSE, FALSE,
                                      InstrumentPlays(frequencies, ChordGain))
    /\ UNCHANGED <<loading, loadFailed>>
    /\ UNCHANGED nonEngineVars

AudioInit == Init

AudioNext ==
    \/ initAudio
    \/ \E contextState \in ContextStates : LoadSucceeds(contextState)
    \/ LoadFails
    \/ ContextSuspends
    \/ \E frequency \in Frequencies : playNote(frequency)
    \/ \E frequencies \in Chords : enginePlayChord(frequencies)

SpecAudio == AudioInit /\ [][AudioNext]_vars

----------------------------------------------------------------------------
(* The earlier ChordCard of the same file: one set of active modifiers,     *)
(* toggled by applyModifier or chosen by handleSelectChange.  Arrays are     *)
(* objects: a local that was assigned mod.replaceWith names the array of the *)
(* catalog entry, and a push or sort through it writes that array.           *)

\* a local freshly allocated array holding the values of s
Fresh(s) == [ref |-> "fresh", fresh |-> s]

\* the array a reference names: the intervals prop, a catalog entry's
\* replaceWith, or an array of its own
Deref(r, mem, prop) ==
    CASE r.ref = "fresh" -> r.fresh
      [] r.ref = "prop"  -> prop
      [] OTHER           -> mem[r.ref]

\* an in-place write (push, sort) through a reference
WriteThrough(r, mem, prop, s) ==
    CASE r.ref = "fresh" -> [r |-> Fresh(s), mem |-> mem, prop |-> prop]
      [] r.ref = "prop"  -> [r |-> r, mem |-> mem, prop |-> s]
      [] OTHER           -> [r |-> r, mem |-> [mem EXCEPT ![r.ref] = s], prop |-> prop]

\* one modifier applied to newIntervals the way both legacy handlers do
ApplyLegacy(modLabel, r, mem, prop) ==
    LET found == FindModifier(modLabel)
        mod == found[1]
        cur == Deref(r, mem, prop)
    IN  IF found = <<>> THEN [r |-> r, mem |-> mem, prop |-> prop]
        ELSE IF mod.replaceWith # <<>>
             THEN [r |-> [ref |-> modLabel, fresh |-> <<>>], mem |-> mem, prop |-> prop]
        ELSE IF mod.intervalsToAdd # <<>>
             THEN WriteThrough(r, mem, prop, PushMissing(cur, mod.intervalsToAdd))
        ELSE IF mod.intervalToAdd # <<>>
             THEN WriteThrough(r, mem, prop, PushMissing(cur, mod.intervalToAdd))
        ELSE IF mod.intervalToRemove # <<>>
             THEN [r |-> Fresh(SetDelete(cur, mod.intervalToRemove[1])),
                   mem |-> mem, prop |-> prop]
        ELSE [r |-> r, mem |-> mem, prop |-> prop]

\* newModifiers.forEach(...) of applyModifier
RECURSIVE ApplyAllLegacy(_, _, _, _)
ApplyAllLegacy(modifiers, r, mem, prop) ==
    IF modifiers = <<>> THEN [r |-> r, mem |-> mem, prop |-> prop]
    ELSE LET w == ApplyLegacy(Head(modifiers), r, mem, prop)
         IN  ApplyAllLegacy(Tail(modifiers), w.r, w.mem, w.prop)

\* newIntervals.sort((a, b) => a - b): in place
SortInPlace(w) == WriteThrough(w.r, w.mem, w.prop, sort(Deref(w.r, w.mem, w.prop)))

\* the calls of the legacy handlers are counted up to MaxToggles
applyModifier(label) ==
    /\ legacyCalls < MaxToggles
    /\ LET newModifiers == IF includes(legacyActive, label)
                           THEN SetDelete(legacyActive, label)
                           ELSE SetAdd(legacyActive, label)
           w == SortInPlace(ApplyAllLegacy(newModifiers, Fresh(intervalsProp),
                                           replaceWithMem, intervalsProp))
       IN  /\ legacyActive' = newModifiers
           /\ legacyCurrent' = w.r
           /\ replaceWithMem' = w.mem
           /\ intervalsProp' = w.prop
           /\ legacyPlayed' = <<Deref(w.r, w.mem, w.prop)>>
    /\ legacyCalls' = legacyCalls + 1
    /\ UNCHANGED nonLegacyVars

\* the select of the compact card: "" is the base chord option
handleSelectChange(selectedLabel) ==
    /\ legacyCalls < MaxToggles
    /\ IF selectedLabel = ""
       THEN /\ legacyActive' = <<>>
            /\ legacyCurrent' = [ref |-> "prop", fresh |-> <<>>]
            /\ legacyPlayed' = <<intervalsProp>>
            /\ UNCHANGED <<replaceWithMem, intervalsProp>>
       ELSE LET w == SortInPlace(ApplyLegacy(selectedLabel, Fresh(intervalsProp),
                                             replaceWithMem, intervalsProp))
            IN  /\ legacyActive' = <<selectedLabel>>
                /\ legacyCurrent' = w.r
                /\ replaceWithMem' = w.mem
                /\ intervalsProp' = w.prop
                /\ legacyPlayed' = <<Deref(w.r, w.mem, w.prop)>>
    /\ legacyCalls' = legacyCalls + 1
    /\ UNCHANGED nonLegacyVars

\* a click on the card outside its modifier controls plays currentIntervals
handleCardClick ==
    /\ legacyPlayed' = <<Deref(legacyCurrent, replaceWithMem, intervalsProp)>>
    /\ UNCHANGED <<legacyActive, legacyCurrent, replaceWithMem, intervalsProp, legacyCalls>>
    /\ UNCHANGED nonLegacyVars

LegacyInit ==
    /\ CardInit
    /\ GroupsIdle
    /\ EngineIdle
    /\ ResolverIdle
    /\ IntervalsIdle
    /\ TimelineIdle
    /\ legacyActive = <<>>
    /\ legacyCurrent = [ref |-> "prop", fresh |-> <<>>]
    /\ replaceWithMem = InitialReplaceWith
    /\ intervalsProp \in BaseChoices
    /\ legacyPlayed = <<>>
    /\ legacyCalls = 0

LegacyNext ==
    \/ \E label \in CatalogLabels : applyModifier(label)
    \/ \E selectedLabel \in CatalogLabels \cup {""} : handleSelectChange(selectedLabel)
    \/ handleCardClick

SpecLegacy == LegacyInit /\ [][LegacyNext]_vars

----------------------------------------------------------------------------
(* The chord group tables: DIATONIC_GROUPS and BORROWED_GROUPS, read the way *)
(* a consumer reads them, group.numerals.includes(numeral)                   *)

Modes == {"major", "minor"}

\* numerals of each harmonic function, by mode
DIATONIC_GROUPS_MinorSixthSubdominant ==
    [major |-> [tonic       |-> <<"I", "vi">>,
                subdominant |-> <<"ii", "IV">>,
                dominant    |-> <<"V", "vii°">>,
                mediant     |-> <<"iii">>],
     minor |-> [tonic       |-> <<"i">>,
                subdominant |-> <<"ii°", "iv", "VI">>,
                dominant    |-> <<"v", "VII">>,
                mediant     |-> <<"III">>]]

DIATONIC_GROUPS ==
    [major |-> [tonic       |-> <<"I", "vi">>,
                subdominant |-> <<"ii", "IV">>,
                dominant    |-> <<"V", "vii°">>,
                mediant     |-> <<"iii">>],
     minor |-> [tonic       |-> <<"i", "VI">>,
                subdominant |-> <<"ii°", "iv">>,
                dominant    |-> <<"v", "VII">>,
                mediant     |-> <<"III">>]]

\* numerals of each group of borrowed chords, by mode
BORROWED_GROUPS ==
    [major |-> [darkening   |-> <<"iv", "bIII">>,
                brightening |-> <<"bVI", "bVII">>],
     minor |-> [brightening |-> <<"IV", "VI", "III">>,
                resolving   |-> <<"VII">>]]

\* the groups of a table that list the numeral under the mode
GroupsListing(table, mode, numeral) ==
    {g \in DOMAIN table[mode] : includes(table[mode][g], numeral)}

\* every numeral either table lists, and one that neither lists
GroupNumerals ==
    UNION {Range(DIATONIC_GROUPS[m][g]) : m \in Modes, g \in DOMAIN DIATONIC_GROUPS["major"]}
    \cup UNION {Range(BORROWED_GROUPS["major"][g]) : g \in DOMAIN BORROWED_GROUPS["major"]}
    \cup UNION {Range(BORROWED_GROUPS["minor"][g]) : g \in DOMAIN BORROWED_GROUPS["minor"]}
    \cup {"bII"}

GroupsInit ==
    /\ CardInit
    /\ LegacyIdle
    /\ EngineIdle
    /\ ResolverIdle
    /\ IntervalsIdle
    /\ TimelineIdle
    /\ groupMode \in Modes
    /\ groupNumeral \in GroupNumerals
    /\ diatonicOut = <<>>
    /\ borrowedOut = <<>>

\* the harmonic functions under which the numeral is listed
LookupDiatonic ==
    /\ diatonicOut = <<>>
    /\ diatonicOut' = <<GroupsListing(DIATONIC_GROUPS, groupMode, groupNumeral)>>
    /\ UNCHANGED <<groupMode, groupNumeral, borrowedOut>>
    /\ UNCHANGED nonGroupVars

\* the borrowed groups under which the numeral is listed
LookupBorrowed ==
    /\ borrowedOut = <<>>
    /\ borrowedOut' = <<GroupsListing(BORROWED_GROUPS, groupMode, groupNumeral)>>
    /\ UNCHANGED <<groupMode, groupNumeral, diatonicOut>>
    /\ UNCHANGED nonGroupVars

GroupsNext == LookupDiatonic \/ LookupBorrowed

SpecGroups == GroupsInit /\ [][GroupsNext]_vars

----------------------------------------------------------------------------
(* Properties *)

\* the last step called handleTap(label) / handleLongPress(label)
TapOf(label) ==
    Len(emitted) = 1 /\ emitted[1].kind = "Tap" /\ emitted[1].label = label

LongPressOf(label) ==
    Len(emitted) = 1 /\ emitted[1].kind = "LongPress" /\ emitted[1].label = label

\* locked plus temp, as the useMemo activeModifiers builds it
Active(locked, temp) == IF temp # Null THEN SetAdd(locked, temp) ELSE locked

\* the categories the table lists under the category of label
ListedUnder(label) ==
    IF MODIFIER_CATEGORIES(label) = "undefined" THEN {}
    ELSE Range(CATEGORY_CONFLICTS[MODIFIER_CATEGORIES(label)])

\* C1: in every reachable state no label is both a member of lockedModifiers
\* and the transient modifier.
C1_NoLabelInBothRoles ==
    tempModifier = Null \/ ~includes(lockedModifiers, tempModifier)

\* C2: lockedModifiers never holds two distinct labels X and Y with the
\* category of Y listed under the category of X in the conflict table.
C2_NoConflictingPairLocked ==
    \A x, y \in Range(lockedModifiers) :
        x # y => MODIFIER_CATEGORIES(y) \notin ListedUnder(x)

C4_LockEvictsConflicts ==
    [][ \A label \in CatalogLabels :
          (LongPressOf(label)' /\ ~includes(lockedModifiers, label)) =>
              Range(lockedModifiers') =
                  (Range(lockedModifiers)
                     \ Range(getConflictingModifiers(label, lockedModifiers)))
                  \cup {label}
      ]_vars

\* C5: lockedModifiers holds at most one label of each category.
C5_OneLockedPerCategory ==
    \A x, y \in Range(lockedModifiers) :
        x # y => MODIFIER_CATEGORIES(x) # MODIFIER_CATEGORIES(y)

\* C5 witness: a long-press on sus4 has evicted the locked sus2 and left
\* exactly sus4 locked.
C5_Witness ==
    /\ LongPressOf("sus4")
    /\ emitted[1].conflicts = <<"sus2">>
    /\ lockedModifiers = <<"sus4">>

\* C6: a long-press on a locked label removes exactly that label.
C6_UnlockRemovesOnlyLabel ==
    [][ \A label \in CatalogLabels :
          (LongPressOf(label)' /\ includes(lockedModifiers, label)) =>
              lockedModifiers' = SetDelete(lockedModifiers, label)
      ]_vars

\* C7: after every long-press the transient modifier is none, or is not locked
\* and conflicts with no locked label; a transient that is neither redundant
\* nor conflicting is left unchanged.
C7_TransientValidAfterLongPress ==
    [][ (Len(emitted') = 1 /\ emitted'[1].kind = "LongPress") =>
          /\ \/ tempModifier' = Null
             \/ /\ ~includes(lockedModifiers', tempModifier')
                /\ getConflictingModifiers(tempModifier', lockedModifiers') = <<>>
          /\ (/\ tempModifier # Null
              /\ ~includes(lockedModifiers', tempModifier)
              /\ getConflictingModifiers(tempModifier, lockedModifiers') = <<>>)
             => tempModifier' = tempModifier
      ]_vars

\* C8: a tap on the transient label clears it, sets the current intervals to
\* calculateIntervals(locked) and plays exactly those intervals once.
C8_TapOnTransientTogglesOff ==
    [][ \A label \in CatalogLabels :
          (TapOf(label)' /\ tempModifier = label) =>
              /\ tempModifier' = Null
              /\ currentIntervals' = calculateIntervals(lockedModifiers, baseIntervals)
              /\ played' = <<currentIntervals'>>
      ]_vars

\* C8 witness: the transient 7 has just been tapped off again and the base
\* triad was played.
C8_Witness ==
    /\ TapOf("7")
    /\ emitted[1].branch = "toggleOff"
    /\ lockedModifiers = <<>>
    /\ tempModifier = Null
    /\ currentIntervals = <<0, 4, 7>>
    /\ played = << <<0, 4, 7>> >>

\* C9: a tap on a label that is neither the transient nor locked makes it the
\* transient, sets the current intervals to calculateIntervals(locked plus
\* {label}) and plays exactly those intervals once.
C9_TapSetsTransient ==
    [][ \A label \in CatalogLabels :
          (TapOf(label)' /\ tempModifier # label /\ ~includes(lockedModifiers, label)) =>
              /\ tempModifier' = label
              /\ currentIntervals' =
                     calculateIntervals(SetAdd(lockedModifiers, label), baseIntervals)
              /\ played' = <<currentIntervals'>>
      ]_vars

\* C9 witness: 7 has just been tapped over a locked sus4; it is the transient
\* and the chord played is the suspended triad plus the minor seventh.
C9_Witness ==
    /\ TapOf("7")
    /\ emitted[1].branch = "setTemp"
    /\ tempModifier = "7"
    /\ lockedModifiers = <<"sus4">>
    /\ currentIntervals = <<0, 5, 7, 10>>
    /\ played = << <<0, 5, 7, 10>> >>

\* C10: a tap never changes lockedModifiers; a tap on a locked label changes
\* neither lockedModifiers nor the transient and plays the intervals of the
\* current active set (locked plus transient).
C10_TapLeavesLockedAndReplaysActive ==
    [][ \A label \in CatalogLabels :
          TapOf(label)' =>
              /\ lockedModifiers' = lockedModifiers
              /\ includes(lockedModifiers, label) =>
                    /\ tempModifier' = tempModifier
                    /\ played' = <<calculateIntervals(
                                      Active(lockedModifiers, tempModifier),
                                      baseIntervals)>>
      ]_vars

\* strictly ascending: sorted and free of duplicates
StrictlyAscending(s) == \A i \in 1..(Len(s) - 1) : s[i] < s[i + 1]

\* C11: for every active set of catalog labels and every sorted, duplicate-free
\* base within 0..23, calculateIntervals returns a strictly ascending list
\* (sorted, no duplicate) within 0..23.
C11_IntervalsSortedUniqueInRange ==
    Len(calcOut) = 1 =>
        /\ StrictlyAscending(calcOut[1])
        /\ \A i \in DOMAIN calcOut[1] : calcOut[1][i] \in 0..23

\* C11 witness: 9 and 13 over a dominant seventh ending on 23: the shared 10
\* and 14 are added once and the result is in order.
C11_Witness ==
    /\ calcModifiers = <<"13", "9">>
    /\ calcBase = <<0, 4, 7, 10>>
    /\ calcOut = << <<0, 4, 7, 10, 14, 21>> >>

\* C12: calculateIntervals returns the same list for the same active set and
\* base, in whatever order the labels were put into the set.
C12_SameSetSameIntervals ==
    Len(calcOut) = 1 =>
        \A q \in ActiveSets :
            Range(q) = Range(calcModifiers) =>
                calculateIntervals(q, calcBase) = calcOut[1]

\* the modifier state right after the reset effect
Cleared ==
    /\ lockedModifiers = <<>>
    /\ tempModifier = Null
    /\ currentIntervals = baseIntervals

\* C13: a change of key, mode or base leaves locked empty, the transient none
\* and the current intervals equal to the new base, and nothing established
\* before the change shows afterwards: a long-press that lands on the cleared
\* state locks its own label alone, over the new base.
C13_ResetLeavesNoEarlierState ==
    [][ /\ (\E newBase \in BaseChoices : ResetEffect(newBase)) => Cleared'
        /\ \A label \in CatalogLabels :
              (mounted /\ Cleared /\ LongPressOf(label)') =>
                  /\ lockedModifiers' = <<label>>
                  /\ tempModifier' = Null
                  /\ currentIntervals' = calculateIntervals(<<label>>, baseIntervals)
      ]_vars

\* the timeout with handle id has neither fired nor been cleared
Pending(id) == \E i \in DOMAIN timers : timers[i].id = id

\* Pressed: the timeout of the press pressTimerRef records is pending
PressedOn(label) ==
    /\ pressTimerRef # 0
    /\ Pending(pressTimerRef)
    /\ currentModifierRef = label

\* LongPressFired: the timeout of the press pressTimerRef records has expired
LongPressFired == pressTimerRef # 0 /\ ~Pending(pressTimerRef)

\* Idle: no press recorded
Idle == pressTimerRef = 0 /\ currentModifierRef = Null

\* C14: a pointer-up while the press on a label is pending (before its timeout
\* expires) emits exactly one Tap of that label and no LongPress, and cancels
\* the timeout of that press.
C14_ShortPressEmitsOneTap ==
    [][ \A label \in CatalogLabels :
          (PressedOn(label) /\ handlePointerUp) =>
              /\ TapOf(label)'
              /\ \A i \in DOMAIN timers' : timers'[i].id # pressTimerRef
      ]_vars

C17_AtMostOneTimer == Len(timers) <= 1

\* C18: after the card is unmounted no long-press callback runs: no LongPress
\* is emitted and no chord is played.
C18_NothingFiresAfterUnmount ==
    ~mounted => (emitted = <<>> /\ played = <<>>)

\* C19: pressing the play button while playing cancels the tick, sets isPlaying
\* to false and resets currentBeat and currentIndexRef to 0 without triggering
\* a chord; while playback stays stopped no tick stream exists, and no step but
\* the play button of a single entry calls playChord or setPlaybackBeat.
C19_StopCancelsTick ==
    [][ /\ (isPlaying /\ handlePlayPause) =>
              /\ tickStreams' = {}
              /\ intervalRef' = 0
              /\ ~isPlaying'
              /\ currentBeat' = 0
              /\ currentIndexRef' = 0
              /\ calls' = StopCalls
        /\ (~isPlaying /\ ~isPlaying') =>
              /\ tickStreams' = {}
              /\ handler' = "handlePlayChord" \/ calls' = <<>>
      ]_vars

\* C19 witness: a run over two entries was stopped with the play button.
C19_Witness ==
    /\ timelineMounted
    /\ handler = "handlePlayPause"
    /\ Len(chordProgression) = 2
    /\ ~isPlaying
    /\ calls = StopCalls
    /\ tickStreams = {}
    /\ currentBeat = 0

\* the next tick of stream t takes it past its last entry with loop off
EndOfRun(t) ==
    /\ ~t.loop
    /\ t.chordIndex + 1 >= Len(t.progression)
    /\ t.beatCount + 1 >= t.progression[t.chordIndex + 1].duration

\* C20: the tick that takes a run started with loop off past its last entry
\* stops the scheduler (isPlaying false, currentBeat 0, the stream cancelled, so
\* it cannot end a second time) and makes exactly the two calls of the end:
\* setPlaybackPlaying(false) once and the playhead reset, with no playChord and
\* no index report in or after it.
C20_EndOfRunStopsOnce ==
    [][ \A t \in tickStreams :
          (EndOfRun(t) /\ TickStream(t)) =>
              /\ ~isPlaying'
              /\ currentBeat' = 0
              /\ tickStreams' = {}
              /\ intervalRef' = 0
              /\ calls' = StopCalls
      ]_vars

\* C20 witness: a run over two entries has ended on its own.
C20_Witness ==
    /\ handler = "tick"
    /\ Len(chordProgression) = 2
    /\ ~isPlaying
    /\ calls = StopCalls
    /\ tickStreams = {}
    /\ currentBeat = 0

\* the entry stream t triggers when it advances: the next one, or the first
\* after the last
NextEntry(t) == IF t.chordIndex + 1 < Len(t.progression) THEN t.chordIndex + 1 ELSE 0

\* the next tick of stream t completes the duration of its current entry
Advances(t) ==
    /\ t.chordIndex < Len(t.progression)
    /\ t.beatCount + 1 >= t.progression[t.chordIndex + 1].duration

PlayChordCalls(cs) == SelectSeq(cs, LAMBDA c : c.fn = "playChord")

\* C21: a run triggers entry 0 once when play is pressed; every advance of its
\* stream triggers exactly the entry after the one triggered last (the first
\* after the last when loop is set), reports that index, and no other tick
\* triggers anything: entries are triggered in the order 0, 1, ..., n-1, 0, ...
C21_TriggersInPositionOrder ==
    [][ /\ (~isPlaying /\ handlePlayPause /\ isPlaying') =>
              /\ PlayChordCalls(calls') = <<Call("playChord", 0)>>
              /\ \A u \in tickStreams' : u.chordIndex = 0
        /\ \A t \in tickStreams :
              TickStream(t) =>
                  IF Advances(t) /\ ~EndOfRun(t)
                  THEN /\ calls' = <<Call("playChord", NextEntry(t)),
                                     Call("setPlaybackBeat", NextEntry(t))>>
                       /\ currentBeat' = NextEntry(t)
                       /\ \E u \in tickStreams' :
                              u.id = t.id /\ u.chordIndex = NextEntry(t)
                  ELSE /\ PlayChordCalls(calls') = <<>>
                       /\ \A u \in tickStreams' :
                              u.id = t.id => u.chordIndex = t.chordIndex
      ]_vars

\* C21 witness: a looping run over two entries has wrapped and triggered the
\* first entry again.
C21_Witness ==
    /\ handler = "tick"
    /\ isPlaying
    /\ calls = <<Call("playChord", 0), Call("setPlaybackBeat", 0)>>
    /\ \E t \in tickStreams : t.loop /\ Len(t.progression) = 2 /\ t.chordIndex = 0

\* d0 + ... + d(k-1) of the progression p
RECURSIVE Cum(_, _)
Cum(p, k) == IF k = 0 THEN 0 ELSE Cum(p, k - 1) + p[k].duration

\* C22: counted from play (or from the last wrap), entry k >= 1 is triggered
\* exactly on tick d0 + ... + d(k-1), the run ends or wraps exactly on tick
\* d0 + ... + d(n-1), no other tick triggers or ends anything, and the period
\* of the stream is the 60000 / tempo computed at play and never changes.
C22_TriggersOnAccumulatedTicks ==
    [][ /\ (~isPlaying /\ handlePlayPause /\ isPlaying') =>
              \A u \in tickStreams' :
                  u.tickCount = 0 /\ u.msPerBeat = MsPerMinute \div tempo
        /\ \A t \in tickStreams :
              TickStream(t) =>
                  LET n == Len(t.progression)
                      tick == t.tickCount + 1
                  IN  /\ \A k \in 1..(n - 1) :
                             (tick = Cum(t.progression, k)) <=>
                                 (calls' = <<Call("playChord", k),
                                             Call("setPlaybackBeat", k)>>)
                      /\ (tick = Cum(t.progression, n)) <=>
                             IF t.loop
                             THEN calls' = <<Call("playChord", 0),
                                             Call("setPlaybackBeat", 0)>>
                             ELSE calls' = StopCalls
                      /\ \A u \in tickStreams' :
                             u.id = t.id => u.msPerBeat = t.msPerBeat
      ]_vars

\* C22 witness: durations 4 and 4 at tempo 120 without loop: seven ticks of
\* 500 ms have fired, the second entry was triggered on tick 4, and the eighth
\* tick will end the run.
C22_Witness ==
    /\ handler = "tick"
    /\ \E t \in tickStreams :
          /\ ~t.loop
          /\ Len(t.progression) = 2
          /\ t.progression[1].duration = 4
          /\ t.progression[2].duration = 4
          /\ t.msPerBeat = 500
          /\ t.tickCount = 7
          /\ t.chordIndex = 1
          /\ EndOfRun(t)

\* C23: at most one tick stream is outstanding, it is the one intervalRef
\* holds, and it exists only while isPlaying: play (which requires isPlaying
\* false) is never pressed while a stream runs.
C23_AtMostOneTickStream ==
    /\ Cardinality(tickStreams) <= 1
    /\ \A t \in tickStreams : isPlaying /\ intervalRef = t.id

\* C23 witness: a looping run has advanced to its second entry and its stream
\* is the only one.
C23_Witness ==
    /\ isPlaying
    /\ handler = "tick"
    /\ Cardinality(tickStreams) = 1
    /\ \E t \in tickStreams : t.loop /\ t.chordIndex = 1 /\ intervalRef = t.id

\* C24: removing an entry or clearing the progression while playing cancels the
\* tick, sets isPlaying to false and resets currentBeat in the same handler that
\* changes the progression; in every state a running stream reads only entries
\* that are still in the progression at the same place.
C24_RemoveStopsFirst ==
    [][ /\ \A id \in EntryIds :
              (isPlaying /\ (handleRemoveChord(id) \/ handleClearProgression)) =>
                  /\ tickStreams' = {}
                  /\ intervalRef' = 0
                  /\ ~isPlaying'
                  /\ currentBeat' = 0
                  /\ calls' = StopCalls
                  /\ Len(chordProgression') < Len(chordProgression)
        /\ \A u \in tickStreams' :
              \A i \in DOMAIN u.progression :
                  /\ i <= Len(chordProgression')
                  /\ chordProgression'[i] = u.progression[i]
      ]_vars

\* C24 witness: the first of two entries was removed during a run.
C24_Witness ==
    /\ handler = "handleRemoveChord"
    /\ calls = StopCalls
    /\ ~isPlaying
    /\ tickStreams = {}
    /\ Len(chordProgression) = 1
    /\ chordProgression[1].id = 2

\* C25: the play button pressed while stopped with an empty progression changes
\* nothing: isPlaying stays false, no stream is armed, nothing is played and
\* currentBeat and currentIndexRef keep their values.
C25_PlayOnEmptyIsNoOp ==
    [][ (~isPlaying /\ Len(chordProgression) = 0 /\ handlePlayPause) =>
            /\ ~isPlaying'
            /\ tickStreams' = {}
            /\ intervalRef' = intervalRef
            /\ calls' = <<>>
            /\ currentBeat' = currentBeat
            /\ currentIndexRef' = currentIndexRef
            /\ chordProgression' = <<>>
      ]_vars

\* C25 witness: the play button was pressed on the empty progression with the
\* loop flag set.
C25_Witness ==
    /\ handler = "handlePlayPause"
    /\ chordProgression = <<>>
    /\ ~isPlaying
    /\ calls = <<>>
    /\ tickStreams = {}
    /\ loop

\* C26: the stop control pressed while playback is already stopped changes
\* nothing: isPlaying stays false, no stream is armed, nothing is played and
\* currentBeat stays where it is.
C26_StopWhileStoppedIsNoOp ==
    [][ (~isPlaying /\ handlePlayPause) =>
            /\ ~isPlaying'
            /\ tickStreams' = tickStreams
            /\ calls' = <<>>
            /\ currentBeat' = currentBeat
      ]_vars

\* C29: the tempo of the playback state is positive and so is the period of
\* every running stream.
C29_TempoPositive ==
    /\ tempo > 0
    /\ \A t \in tickStreams : t.msPerBeat > 0

\* C27: while the playback capability throws, a tap, a long-press and a header
\* click still apply the state transition of the handler, still emit the chord
\* selection (the card's playChord reaches actions.selectChord) and still leave
\* the refs ready for the next gesture; only the sound is missing.
C27_PlaybackThrowAbsorbed ==
    [][ audioThrows =>
          /\ \A label \in CatalogLabels :
                (handlePointerUp /\ ~isLongPressRef /\ currentModifierRef = label) =>
                    LET r == handleTap(label, lockedModifiers, tempModifier,
                                       currentIntervals, baseIntervals)
                    IN  /\ tempModifier' = IF r.setTemp THEN r.temp ELSE tempModifier
                        /\ currentIntervals' = IF r.setCurrent THEN r.current
                                               ELSE currentIntervals
                        /\ played' = r.played
                        /\ sounded' = <<>>
                        /\ currentModifierRef' = Null
                        /\ pressTimerRef' = 0
          /\ \A t \in Range(timers) :
                (t = Head(timers) /\ LongPressTimeout) =>
                    LET r == handleLongPress(t.modifierLabel, t.locked, t.temp, t.base)
                    IN  /\ lockedModifiers' = r.locked
                        /\ tempModifier' = IF r.setTemp THEN r.temp ELSE tempModifier
                        /\ currentIntervals' = r.current
                        /\ played' = r.played
                        /\ sounded' = <<>>
                        /\ isLongPressRef'
          /\ handleChordClick =>
                /\ played' = <<currentIntervals>>
                /\ sounded' = <<>>
      ]_vars

\* C27 witness: 7 was tapped while the capability threw: the transient is 7,
\* the seventh chord was selected and nothing sounded.
C27_Witness ==
    /\ audioThrows
    /\ TapOf("7")
    /\ tempModifier = "7"
    /\ currentIntervals = <<0, 4, 7, 10>>
    /\ played = << <<0, 4, 7, 10>> >>
    /\ sounded = <<>>

\* C28: in every engine state that is not fully initialized (before loading,
\* while loading, after a failed load) a playNote or playChord call returns
\* without throwing and without a call of the instrument, and only warns.
C28_UnreadyPlayIsSilent ==
    (engineOut.op \in {"playNote", "playChord"} /\ ~audioRef.initialized) =>
        /\ ~engineOut.threw
        /\ engineOut.plays = <<>>
        /\ engineOut.warned

\* C28 witness: playChord was called after a failed load and only warned.
C28_Witness ==
    /\ loadFailed
    /\ ~audioRef.initialized
    /\ ~audioRef.loading
    /\ engineOut = EngineOut("playChord", TRUE, FALSE, <<>>)

\* C30: the category conflict table is symmetric: whenever locking the
\* candidate evicts an active modifier, locking that modifier while the
\* candidate is active evicts the candidate, and the other way round.
C30_ConflictTableSymmetric ==
    Len(conflictsOut) = 1 =>
        \A x \in Range(active) :
            includes(conflictsOut[1], x) <=>
                includes(getConflictingModifiers(x, <<candidate>>), candidate)

\* C31: in every reachable state the active set (lockedModifiers plus the
\* transient modifier) holds at most one replace-effect modifier.
C31_ActiveHasOneReplace ==
    Cardinality(Range(Active(lockedModifiers, tempModifier)) \cap ReplaceLabels) <= 1

\* C32: lockedModifiers never holds two replace-effect modifiers at the same
\* time, after any sequence of long-presses: the category of every
\* replace-effect label is listed under the category of every replace-effect
\* label, so locking one evicts the other.
C32_LockedHasOneReplace ==
    /\ Cardinality(Range(lockedModifiers) \cap ReplaceLabels) <= 1
    /\ \A x, y \in ReplaceLabels : MODIFIER_CATEGORIES(y) \in ListedUnder(x)

\* C32 witness: a long-press on the replace-effect dim has evicted the locked
\* replace-effect sus4 and left dim as the only locked label.
C32_Witness ==
    /\ LongPressOf("dim")
    /\ emitted[1].conflicts = <<"sus4">>
    /\ lockedModifiers = <<"dim">>

\* the labels of a set listed in the order of the catalog
InCatalogOrder(modifiers) ==
    LET labels == [i \in DOMAIN CHORD_MODIFIERS |-> CHORD_MODIFIERS[i].label]
    IN  SelectSeq(labels, LAMBDA l : includes(modifiers, l))

\* C33: when calculateIntervals receives more than one replace-effect
\* modifier, the result is the one of applying them in catalog order, so the
\* replace-effect modifier that comes last in the catalog sets the base,
\* in whatever order the labels were activated.
C33_LastInCatalogWins ==
    (Len(calcOut) = 1 /\ Cardinality(Range(calcModifiers) \cap ReplaceLabels) > 1) =>
        calcOut[1] = calculateIntervals(InCatalogOrder(calcModifiers), calcBase)

\* C34: the modifier catalog and the base interval set are never mutated:
\* after any sequence of modifier toggles every replaceWith list of the
\* catalog and the intervals prop hold the values they were created with.
C34_CatalogAndBaseUnchanged ==
    /\ replaceWithMem = InitialReplaceWith
    /\ intervalsProp \in BaseChoices

\* C35: in every reachable state the card's stored current intervals equal
\* calculateIntervals of lockedModifiers plus the transient modifier over the
\* current base intervals.
C35_CurrentIsCalculated ==
    currentIntervals =
        calculateIntervals(Active(lockedModifiers, tempModifier), baseIntervals)

\* C36: isPlaying is true exactly when a recurring tick handle is
\* outstanding.
C36_PlayingIffTickOutstanding ==
    isPlaying <=> (tickStreams # {})

\* C37: with the loop flag off and ticks that keep firing, playback started
\* on a non-empty progression reaches the idle state (not playing, no tick
\* outstanding) without any user action, whatever the durations.
C37_NonLoopPlaybackEnds ==
    (isPlaying /\ \E t \in tickStreams : ~t.loop /\ Len(t.progression) > 0)
        ~> PlaybackIdle

\* C37 witness: a run over an entry of four beats and one of two beats, left
\* alone with the loop flag off, has ended on its own.
C37_Witness ==
    /\ handler = "tick"
    /\ PlaybackIdle
    /\ ~loop
    /\ Len(chordProgression) = 2
    /\ chordProgression[1].duration = 4
    /\ chordProgression[2].duration = 2
    /\ calls = StopCalls

\* C38: a running playback uses the progression, tempo and loop flag captured
\* when play was pressed: toggling loop, changing the tempo or appending an
\* entry leaves every running tick stream as it is, a tick keeps the captured
\* progression, loop flag and period of its stream, and what an advancing tick
\* triggers (the next captured entry, or the end) follows from them alone.
C38_RunUsesCapturedSettings ==
    [][ /\ (toggleLoop
              \/ (\E text \in TempoTexts : setTempo(text))
              \/ (\E id \in EntryIds, duration \in Durations :
                      addToProgression(id, duration)))
             => tickStreams' = tickStreams
        /\ \A t \in tickStreams :
              TickStream(t) =>
                  /\ \A u \in tickStreams' :
                        u.id = t.id =>
                            /\ u.progression = t.progression
                            /\ u.loop = t.loop
                            /\ u.msPerBeat = t.msPerBeat
                  /\ Advances(t) =>
                        IF t.chordIndex + 1 >= Len(t.progression) /\ ~t.loop
                        THEN calls' = StopCalls /\ ~isPlaying'
                        ELSE PlayChordCalls(calls') = <<Call("playChord", NextEntry(t))>>
      ]_vars

\* C38 witness: a run has just ended on its own while the loop flag is set,
\* the tempo is 90 and the progression holds two entries.
C38_Witness ==
    /\ handler = "tick"
    /\ calls = StopCalls
    /\ ~isPlaying
    /\ loop
    /\ tempo = 90
    /\ Len(chordProgression) = 2

\* C39: for each mode, no numeral listed as a borrowed chord of the mode is
\* also one of the mode's seven diatonic numerals.
C39_BorrowedNotDiatonic ==
    (diatonicOut # <<>> /\ borrowedOut # <<>>) =>
        (borrowedOut[1] # {} => diatonicOut[1] = {})

\* the scale degree a roman numeral names: its value without case, accidental
\* or quality mark
DegreeOf(numeral) ==
    CASE numeral \in {"I", "i"}          -> 1
      [] numeral \in {"ii", "ii°"}       -> 2
      [] numeral \in {"iii", "III"}      -> 3
      [] numeral \in {"IV", "iv"}        -> 4
      [] numeral \in {"V", "v"}          -> 5
      [] numeral \in {"vi", "VI"}        -> 6
      [] numeral \in {"vii°", "VII"}     -> 7
      [] OTHER                           -> 0

\* the harmonic function fixed by scale position
FunctionOfDegree(degree) ==
    CASE degree \in {1, 6} -> "tonic"
      [] degree \in {2, 4} -> "subdominant"
      [] degree \in {5, 7} -> "dominant"
      [] degree = 3        -> "mediant"

\* the numerals the diatonic table lists under a mode
DiatonicNumerals(mode) ==
    UNION {Range(DIATONIC_GROUPS[mode][g]) : g \in DOMAIN DIATONIC_GROUPS[mode]}

\* C40: in both modes each of the seven diatonic numerals is listed under
\* exactly one harmonic function, the one of its scale degree: degrees 1 and 6
\* tonic, 2 and 4 subdominant, 5 and 7 dominant, 3 mediant; and the numerals
\* of a mode cover the seven degrees.
C40_FunctionByDegree ==
    /\ \A mode \in Modes :
          {DegreeOf(n) : n \in DiatonicNumerals(mode)} = 1..7
    /\ (diatonicOut # <<>> /\ groupNumeral \in DiatonicNumerals(groupMode)) =>
          diatonicOut[1] = {FunctionOfDegree(DegreeOf(groupNumeral))}

\* C40 witness: VI looked up in minor is found under the tonic function only.
C40_Witness ==
    /\ groupMode = "minor"
    /\ groupNumeral = "VI"
    /\ diatonicOut = <<{"tonic"}>>

====
